---- MODULE Spec2Model ----
(***************************************************************************)
(* A model of package ctag (src/ctag/ctag.go): the tag walker              *)
(* (GetTags / GetTagsAndProcess / getTags / parse) and the coercion        *)
(* engine (SetField / setValue and its helpers).                           *)
(*                                                                         *)
(* Go strings are sequences of one-character strings, so that splitting,   *)
(* substring search and parsing are computed and not assumed.  Go values   *)
(* are records tagged with their kind; pointers are locations in a heap,   *)
(* and a reflect.Value is either a location (addressable) or a copy.       *)
(***************************************************************************)
EXTENDS Integers, Sequences, FiniteSets, TLC

\* ------------------------------------------------------------------ bounds
\* The longest top-level record the inputs hold, in fields.
MaxFields == 2
\* The most comma-separated parts a string handed to SetField holds, and the
\* most elements a slice handed to it holds.
MaxParts == 3
\* The most keys a map handed to SetField holds.
MaxKeys == 2

\* The build the program runs as: "amd64" or "arm64".  It decides the result
\* of the one conversion the package makes that Go leaves to the
\* implementation, a negative float64 to uint64.
VARIABLE build

\* ----------------------------------------------------------------- strings
S_empty == <<>>
S_dash == <<"-">>
S_comma == ","
S_omitempty == <<"o", "m", "i", "t", "e", "m", "p", "t", "y">>

\* strings.Contains(s, sub)
Contains(s, sub) ==
  \E i \in 0..(Len(s) - Len(sub)) : SubSeq(s, i + 1, i + Len(sub)) = sub

\* strings.Index(s, ","): the 1-based place of the first comma, 0 when none
CommaIndex(s) ==
  IF \E i \in 1..Len(s) : s[i] = S_comma
  THEN CHOOSE i \in 1..Len(s) : s[i] = S_comma /\ \A j \in 1..(i - 1) : s[j] # S_comma
  ELSE 0

\* strings.Split(s, ","): always at least one part
RECURSIVE Split(_)
Split(s) ==
  LET c == CommaIndex(s) IN
  IF c = 0 THEN <<s>>
  ELSE <<SubSeq(s, 1, c - 1)>> \o Split(SubSeq(s, c + 1, Len(s)))

\* strings.SplitN(s, ",", 2): at most two parts, the second unsplit
SplitN2(s) ==
  LET c == CommaIndex(s) IN
  IF c = 0 THEN <<s>>
  ELSE <<SubSeq(s, 1, c - 1), SubSeq(s, c + 1, Len(s))>>

\* strings.TrimSpace(s)
IsSpace(c) == c \in {" ", "\t", "\n", "\r"}
RECURSIVE TrimLeft(_)
TrimLeft(s) == IF s # <<>> /\ IsSpace(Head(s)) THEN TrimLeft(Tail(s)) ELSE s
RECURSIVE TrimRight(_)
TrimRight(s) ==
  IF s # <<>> /\ IsSpace(s[Len(s)]) THEN TrimRight(SubSeq(s, 1, Len(s) - 1)) ELSE s
TrimSpace(s) == TrimRight(TrimLeft(s))

\* ------------------------------------------------------------------- types
\* reflect.Type, as far as the package looks at it.  A struct type is its
\* name and its fields' declarations (name, PkgPath == "", Anonymous, Tag,
\* Type); two struct types are identical when these agree.
TInt(w) == [kind |-> "int", w |-> w]
TUint(w) == [kind |-> "uint", w |-> w]
TFloat(w) == [kind |-> "float", w |-> w]
TString == [kind |-> "string"]
TBool == [kind |-> "bool"]
TIface == [kind |-> "iface"]
TPtr(e) == [kind |-> "ptr", elem |-> e]
TSlice(e) == [kind |-> "slice", elem |-> e]
TMap(e) == [kind |-> "map", velem |-> e]
TStruct(decls) == [kind |-> "struct", decls |-> decls]

\* ------------------------------------------------------------------ values
\* The nil interface value (reflect.ValueOf(nil) is the invalid Value).
Nil == [kind |-> "nil"]
NilLoc == [base |-> 0, path |-> <<>>]
VInt(w, n) == [kind |-> "int", w |-> w, n |-> n]
VUint(w, n) == [kind |-> "uint", w |-> w, n |-> n]
\* A float is held in tenths: VFloat(64, 429) is 42.9
VFloat(w, n) == [kind |-> "float", w |-> w, n |-> n]
VString(s) == [kind |-> "string", s |-> s]
VBool(b) == [kind |-> "bool", b |-> b]
\* A pointer is the location it points to (NilLoc: a nil pointer) and its
\* element type.
VPtr(loc, e) == [kind |-> "ptr", loc |-> loc, elem |-> e]
VNilPtr(e) == VPtr(NilLoc, e)
\* A struct value: its fields, each a declaration and the field's value.
VStruct(fields) == [kind |-> "struct", fields |-> fields]
Field(name, exported, anon, tag, val) ==
  [name |-> name, exported |-> exported, anon |-> anon, tag |-> tag, val |-> val]

IsNilPtr(v) == v.kind = "ptr" /\ v.loc = NilLoc

\* An interface{} holding dyn (Nil: the nil interface)
VIface(dyn) == [kind |-> "iface", dyn |-> dyn]
\* A slice: its element type, whether it is nil, and its elements
VSlice(e, isnil, items) == [kind |-> "slice", elem |-> e, isnil |-> isnil, items |-> items]
\* A map[string]E: its element type, whether it is nil, its keys and their values
VMap(e, isnil, keys, vals) ==
  [kind |-> "map", velem |-> e, isnil |-> isnil, keys |-> keys, vals |-> vals]

RECURSIVE TypeOf(_)
\* reflect.TypeOf(v) / Value.Type()
TypeOf(v) ==
  CASE v.kind = "int" -> TInt(v.w)
    [] v.kind = "uint" -> TUint(v.w)
    [] v.kind = "float" -> TFloat(v.w)
    [] v.kind = "string" -> TString
    [] v.kind = "bool" -> TBool
    [] v.kind = "ptr" -> TPtr(v.elem)
    [] v.kind = "iface" -> TIface
    [] v.kind = "slice" -> TSlice(v.elem)
    [] v.kind = "map" -> TMap(v.velem)
    [] v.kind = "struct" ->
         TStruct([i \in 1..Len(v.fields) |->
                    [name |-> v.fields[i].name, exported |-> v.fields[i].exported,
                     anon |-> v.fields[i].anon, tag |-> v.fields[i].tag,
                     type |-> TypeOf(v.fields[i].val)]])
    [] OTHER -> [kind |-> "invalid"]

RECURSIVE Zero(_)
\* reflect.Zero(t)
Zero(t) ==
  CASE t.kind = "int" -> VInt(t.w, 0)
    [] t.kind = "uint" -> VUint(t.w, 0)
    [] t.kind = "float" -> VFloat(t.w, 0)
    [] t.kind = "string" -> VString(S_empty)
    [] t.kind = "bool" -> VBool(FALSE)
    [] t.kind = "ptr" -> VNilPtr(t.elem)
    [] t.kind = "iface" -> VIface(Nil)
    [] t.kind = "slice" -> VSlice(t.elem, TRUE, <<>>)
    [] t.kind = "map" -> VMap(t.velem, TRUE, <<>>, <<>>)
    [] t.kind = "struct" ->
         VStruct([i \in 1..Len(t.decls) |->
                    Field(t.decls[i].name, t.decls[i].exported, t.decls[i].anon,
                          t.decls[i].tag, Zero(t.decls[i].type))])
    [] OTHER -> Nil

RECURSIVE IsZero(_)
\* reflect.Value.IsZero
IsZero(v) ==
  CASE v.kind = "int" -> v.n = 0
    [] v.kind = "uint" -> v.n = 0
    [] v.kind = "float" -> v.n = 0
    [] v.kind = "string" -> v.s = S_empty
    [] v.kind = "bool" -> ~v.b
    [] v.kind = "ptr" -> v.loc = NilLoc
    [] v.kind = "iface" -> v.dyn = Nil
    [] v.kind = "slice" -> v.isnil
    [] v.kind = "map" -> v.isnil
    [] v.kind = "struct" -> \A i \in 1..Len(v.fields) : IsZero(v.fields[i].val)
    [] OTHER -> TRUE

\* -------------------------------------------------------------------- heap
\* The heap is a sequence of allocated values; a location is a heap index
\* and a path of field indexes into the value there.
RECURSIVE Sub(_, _)
Sub(v, path) ==
  IF path = <<>> THEN v ELSE Sub(v.fields[Head(path)].val, Tail(path))

RECURSIVE Upd(_, _, _)
Upd(v, path, new) ==
  IF path = <<>> THEN new
  ELSE [v EXCEPT !.fields[Head(path)].val = Upd(@, Tail(path), new)]

Read(h, loc) == Sub(h[loc.base], loc.path)
Write(h, loc, new) == [h EXCEPT ![loc.base] = Upd(@, loc.path, new)]

\* reflect.Value: addressable (a location) or not (a copy of the value).
RV(addr, loc, val) == [addr |-> addr, loc |-> loc, val |-> val]
RVAt(loc) == RV(TRUE, loc, Nil)
RVCopy(val) == RV(FALSE, NilLoc, val)
RVGet(h, rv) == IF rv.addr THEN Read(h, rv.loc) ELSE rv.val
\* Value.Field(i)
RVField(h, rv, i) ==
  IF rv.addr THEN RVAt([rv.loc EXCEPT !.path = Append(@, i)])
  ELSE RVCopy(rv.val.fields[i].val)
\* Value.Elem() of a non-nil pointer
RVElem(h, rv) == RVAt(RVGet(h, rv).loc)
\* Value.CanSet(): the fields the walker reaches are never read-only
CanSet(rv) == rv.addr
\* Value.Addr().Interface()
AddrOf(h, rv) == VPtr(rv.loc, TypeOf(RVGet(h, rv)))
\* Value.Interface(): the value, or what an interface-kind Value holds
Interface(v) == IF v.kind = "iface" THEN v.dyn ELSE v

\* ------------------------------------------------------------------ errors
\* An error is its message template, the operands formatted into it and the
\* error it wraps (%w).
NoErr == [code |-> "nil"]
Err(code, detail) == [code |-> code, detail |-> detail, cause |-> NoErr]
WrapErr(code, detail, cause) == [code |-> code, detail |-> detail, cause |-> cause]
IsErr(e) == e # NoErr

RECURSIVE TypeName(_)
\* %T / %v of a type
TypeName(t) ==
  CASE t.kind = "int" -> IF t.w = 64 THEN <<"int">> ELSE <<"int8">>
    [] t.kind = "uint" -> IF t.w = 64 THEN <<"uint">> ELSE <<"uint8">>
    [] t.kind = "float" -> <<"float64">>
    [] t.kind = "string" -> <<"string">>
    [] t.kind = "bool" -> <<"bool">>
    [] t.kind = "iface" -> <<"interface {}">>
    [] t.kind = "ptr" -> <<"*">> \o TypeName(t.elem)
    [] t.kind = "slice" -> <<"[]">> \o TypeName(t.elem)
    [] t.kind = "map" -> <<"map[string]">> \o TypeName(t.velem)
    [] t.kind = "struct" -> <<"struct">>
    [] OTHER -> <<"<nil>">>

\* ---------------------------------------------------------------- numerals
DigitChars == <<"0", "1", "2", "3", "4", "5", "6", "7", "8", "9">>
IsDigit(c) == \E d \in 1..10 : DigitChars[d] = c
DigitVal(c) == (CHOOSE d \in 1..10 : DigitChars[d] = c) - 1

RECURSIVE DigitsVal(_, _)
DigitsVal(s, acc) ==
  IF s = <<>> THEN acc ELSE DigitsVal(Tail(s), acc * 10 + DigitVal(Head(s)))

AllDigits(s) == s # <<>> /\ \A i \in 1..Len(s) : IsDigit(s[i])

\* strconv.ParseUint(s, 10, 64); the strings of the model are too short to
\* leave the 64-bit range
ParseUint(s) ==
  IF AllDigits(s) THEN [ok |-> TRUE, n |-> DigitsVal(s, 0)]
  ELSE [ok |-> FALSE, n |-> 0]

\* strconv.ParseInt(s, 10, 64)
ParseInt(s) ==
  IF s # <<>> /\ Head(s) \in {"+", "-"}
  THEN LET u == ParseUint(Tail(s)) IN
       [ok |-> u.ok, n |-> IF Head(s) = "-" THEN 0 - u.n ELSE u.n]
  ELSE ParseUint(s)

\* A parser that knows only "true", "1", "false" and "0"
ParseBoolStrict(s) ==
  CASE s \in {<<"1">>, <<"t", "r", "u", "e">>} -> [ok |-> TRUE, b |-> TRUE]
    [] s \in {<<"0">>, <<"f", "a", "l", "s", "e">>} -> [ok |-> TRUE, b |-> FALSE]
    [] OTHER -> [ok |-> FALSE, b |-> FALSE]

\* strconv.ParseBool(s)
ParseBool(s) ==
  CASE s \in {<<"1">>, <<"t">>, <<"T">>, <<"T", "R", "U", "E">>,
              <<"t", "r", "u", "e">>, <<"T", "r", "u", "e">>} ->
         [ok |-> TRUE, b |-> TRUE]
    [] s \in {<<"0">>, <<"f">>, <<"F">>, <<"F", "A", "L", "S", "E">>,
              <<"f", "a", "l", "s", "e">>, <<"F", "a", "l", "s", "e">>} ->
         [ok |-> TRUE, b |-> FALSE]
    [] OTHER -> [ok |-> FALSE, b |-> FALSE]

Abs(x) == IF x < 0 THEN 0 - x ELSE x

\* The place of the first "." of s, 0 when none
DotIndex(s) ==
  IF \E i \in 1..Len(s) : s[i] = "."
  THEN CHOOSE i \in 1..Len(s) : s[i] = "." /\ \A j \in 1..(i - 1) : s[j] # "."
  ELSE 0

\* The decimal literal u without its sign: digits, digits with a fraction, or
\* a fraction alone; its value in tenths
ParseDecimal(u) ==
  LET d == DotIndex(u)
      whole == IF d = 0 THEN u ELSE SubSeq(u, 1, d - 1)
      frac == IF d = 0 THEN <<>> ELSE SubSeq(u, d + 1, Len(u))
  IN IF /\ (whole # <<>> \/ frac # <<>>)
        /\ \A i \in 1..Len(whole) : IsDigit(whole[i])
        /\ \A i \in 1..Len(frac) : IsDigit(frac[i])
     THEN [ok |-> TRUE,
           n |-> 10 * DigitsVal(whole, 0) + (IF frac = <<>> THEN 0 ELSE DigitVal(frac[1]))]
     ELSE [ok |-> FALSE, n |-> 0]

\* strconv.ParseFloat(s, 64) on the decimal literals; the strings of the model
\* carry at most one fractional digit and none of the exponent, hexadecimal,
\* infinity or NaN forms
ParseFloat(s) ==
  IF s # <<>> /\ Head(s) \in {"+", "-"}
  THEN LET u == ParseDecimal(Tail(s)) IN
       [ok |-> u.ok, n |-> IF Head(s) = "-" THEN 0 - u.n ELSE u.n]
  ELSE ParseDecimal(s)

RECURSIVE NatDigits(_)
NatDigits(n) ==
  IF n < 10 THEN <<DigitChars[n + 1]>>
  ELSE NatDigits(n \div 10) \o <<DigitChars[(n % 10) + 1]>>

\* a < b on Go strings, the order in which fmt prints a map's keys: byte-wise
\* lexicographic, a proper prefix first.  ByteOrder lists the characters the
\* model's keys are made of in ascending byte order.
StrLess(a, b) ==
  LET ByteOrder ==
        <<"0", "1", "2", "3", "4", "5", "6", "7", "8", "9",
          "A", "B", "C", "D", "E", "F", "G", "H", "I", "J", "K", "L", "M",
          "N", "O", "P", "Q", "R", "S", "T", "U", "V", "W", "X", "Y", "Z", "_",
          "a", "b", "c", "d", "e", "f", "g", "h", "i", "j", "k", "l", "m",
          "n", "o", "p", "q", "r", "s", "t", "u", "v", "w", "x", "y", "z">>
      rank(c) == CHOOSE r \in 1..Len(ByteOrder) : ByteOrder[r] = c
  IN \E i \in 1..Len(b) :
       /\ i <= Len(a) + 1
       /\ \A j \in 1..(i - 1) : a[j] = b[j]
       /\ (i = Len(a) + 1 \/ rank(a[i]) < rank(b[i]))

\* fmt.Sprintf("%v", v): numbers in base 10, a nil pointer or interface as
\* <nil>, a slice as [e1 e2], a struct as {f1 f2}, a map as map[k1:v1 k2:v2]
\* with its keys in ascending order (map[] when empty or nil).  A non-nil
\* pointer prints as an address, which no value of the model carries.
RECURSIVE FormatV(_)
RECURSIVE FormatEach(_)
RECURSIVE FormatPairs(_, _)
\* The entries of map m from the r-th smallest key on, as k:v separated by spaces
FormatPairs(m, r) ==
  IF r > Len(m.keys) THEN <<>>
  ELSE LET j == CHOOSE k \in 1..Len(m.keys) :
                  Cardinality({ l \in 1..Len(m.keys) : StrLess(m.keys[l], m.keys[k]) }) = r - 1
       IN (IF r > 1 THEN <<" ">> ELSE <<>>)
          \o m.keys[j] \o <<":">> \o FormatV(m.vals[j]) \o FormatPairs(m, r + 1)
FormatEach(vs) ==
  IF vs = <<>> THEN <<>>
  ELSE IF Len(vs) = 1 THEN FormatV(vs[1])
  ELSE FormatV(vs[1]) \o <<" ">> \o FormatEach(Tail(vs))
FormatV(v) ==
  CASE v.kind \in {"int", "uint"} ->
         IF v.n < 0 THEN <<"-">> \o NatDigits(0 - v.n) ELSE NatDigits(v.n)
    [] v.kind = "float" ->
         (IF v.n < 0 THEN <<"-">> ELSE <<>>)
         \o NatDigits(Abs(v.n) \div 10)
         \o (IF Abs(v.n) % 10 = 0 THEN <<>> ELSE <<".", DigitChars[(Abs(v.n) % 10) + 1]>>)
    [] v.kind = "bool" ->
         IF v.b THEN <<"t", "r", "u", "e">> ELSE <<"f", "a", "l", "s", "e">>
    [] v.kind = "string" -> v.s
    [] v.kind = "nil" -> <<"<", "n", "i", "l", ">">>
    [] v.kind = "ptr" /\ v.loc = NilLoc -> <<"<", "n", "i", "l", ">">>
    [] v.kind = "iface" -> FormatV(v.dyn)
    [] v.kind = "slice" -> <<"[">> \o FormatEach(v.items) \o <<"]">>
    [] v.kind = "struct" ->
         <<"{">> \o FormatEach([i \in 1..Len(v.fields) |-> v.fields[i].val]) \o <<"}">>
    [] v.kind = "map" -> <<"m", "a", "p", "[">> \o FormatPairs(v, 1) \o <<"]">>
    [] OTHER -> <<"?">>

Pow2(w) == IF w = 8 THEN 256 ELSE 65536
\* The conversion of a 64-bit integer to a w-bit signed one (SetInt): two's
\* complement wrap-around.  The model's 64-bit values stay far inside the
\* range, so a 64-bit destination keeps them; a uint64 beyond the signed
\* range is held by the negative number with the same 64 bits (-1 is
\* 18446744073709551615).
TruncInt(w, x) ==
  IF w = 64 THEN x ELSE ((x + Pow2(w) \div 2) % Pow2(w)) - Pow2(w) \div 2
\* The conversion to a w-bit unsigned one (SetUint)
TruncUint(w, x) == IF w = 64 THEN x ELSE x % Pow2(w)

\* ---------------------------------------------------------------- coercion
isNumeric(k) == k \in {"int", "uint", "float"}

\* Type.AssignableTo: identical types, or any type to interface{}
AssignableTo(vt, ft) == vt = ft \/ ft.kind = "iface"

\* Value.Set(value) on a destination of type ft
Boxed(ft, value) == IF ft.kind = "iface" THEN VIface(value) ELSE value

Done(h, e) == [heap |-> h, err |-> e]

\* setFromString storing what the parser returned before looking at its error
setFromStringStoresFirst(h, loc, str) ==
  LET ft == TypeOf(Read(h, loc)) IN
  CASE ft.kind = "string" -> Done(Write(h, loc, VString(str)), NoErr)
    [] ft.kind = "int" ->
         IF ~ParseInt(str).ok
         THEN Done(Write(h, loc, VInt(ft.w, 0)),
                   WrapErr("ctag: cannot parse %q as int: %w", str,
                           Err("strconv.ParseInt: invalid syntax", str)))
         ELSE Done(Write(h, loc, VInt(ft.w, TruncInt(ft.w, ParseInt(str).n))), NoErr)
    [] ft.kind = "uint" ->
         IF ~ParseUint(str).ok
         THEN Done(Write(h, loc, VUint(ft.w, 0)),
                   WrapErr("ctag: cannot parse %q as uint: %w", str,
                           Err("strconv.ParseUint: invalid syntax", str)))
         ELSE Done(Write(h, loc, VUint(ft.w, TruncUint(ft.w, ParseUint(str).n))), NoErr)
    [] ft.kind = "float" ->
         IF ~ParseFloat(str).ok
         THEN Done(Write(h, loc, VFloat(ft.w, 0)),
                   WrapErr("ctag: cannot parse %q as float: %w", str,
                           Err("strconv.ParseFloat: invalid syntax", str)))
         ELSE Done(Write(h, loc, VFloat(ft.w, ParseFloat(str).n)), NoErr)
    [] ft.kind = "bool" ->
         IF ~ParseBool(str).ok
         THEN Done(Write(h, loc, VBool(FALSE)),
                   WrapErr("ctag: cannot parse %q as bool: %w", str,
                           Err("strconv.ParseBool: invalid syntax", str)))
         ELSE Done(Write(h, loc, VBool(ParseBool(str).b)), NoErr)
    [] OTHER -> Done(h, Err("ctag: cannot convert string to %v", TypeName(ft)))

setFromString(h, loc, str) ==
  LET ft == TypeOf(Read(h, loc)) IN
  CASE ft.kind = "string" -> Done(Write(h, loc, VString(str)), NoErr)
    [] ft.kind = "int" ->
         LET r == ParseInt(str) IN
         IF ~r.ok
         THEN Done(h, WrapErr("ctag: cannot parse %q as int: %w", str,
                              Err("strconv.ParseInt: invalid syntax", str)))
         ELSE Done(Write(h, loc, VInt(ft.w, TruncInt(ft.w, r.n))), NoErr)
    [] ft.kind = "uint" ->
         LET r == ParseUint(str) IN
         IF ~r.ok
         THEN Done(h, WrapErr("ctag: cannot parse %q as uint: %w", str,
                              Err("strconv.ParseUint: invalid syntax", str)))
         ELSE Done(Write(h, loc, VUint(ft.w, TruncUint(ft.w, r.n))), NoErr)
    [] ft.kind = "float" ->
         LET r == ParseFloat(str) IN
         IF ~r.ok
         THEN Done(h, WrapErr("ctag: cannot parse %q as float: %w", str,
                              Err("strconv.ParseFloat: invalid syntax", str)))
         ELSE Done(Write(h, loc, VFloat(ft.w, r.n)), NoErr)
    [] ft.kind = "bool" ->
         LET r == ParseBool(str) IN
         IF ~r.ok
         THEN Done(h, WrapErr("ctag: cannot parse %q as bool: %w", str,
                              Err("strconv.ParseBool: invalid syntax", str)))
         ELSE Done(Write(h, loc, VBool(r.b)), NoErr)
    [] OTHER -> Done(h, Err("ctag: cannot convert string to %v", TypeName(ft)))

\* A conversion that rounds down instead of toward zero
FloatFloor(t) == t \div 10

\* float64 to int64: the fraction is discarded
FloatTrunc(t) == IF t >= 0 THEN t \div 10 ELSE 0 - ((0 - t) \div 10)

\* valueVal.Int(), int64(valueVal.Uint()), int64(valueVal.Float())
ToInt64(value) == IF value.kind = "float" THEN FloatTrunc(value.n) ELSE value.n

\* uint64(valueVal.Int()), valueVal.Uint(), uint64(valueVal.Float()).  A
\* negative float has no uint64: the conversion's result depends on the
\* build (amd64 wraps, arm64 gives 0)
ToUint64(value) ==
  IF value.kind = "float"
  THEN IF FloatTrunc(value.n) < 0 /\ build = "arm64" THEN 0 ELSE FloatTrunc(value.n)
  ELSE value.n

\* float64(valueVal.Int()), float64(valueVal.Uint()), valueVal.Float()
ToFloat64(value) == IF value.kind = "float" THEN value.n ELSE 10 * value.n

setNumericValue(h, loc, value) ==
  LET ft == TypeOf(Read(h, loc)) IN
  CASE ft.kind \in {"int", "uint", "float"} /\ ~isNumeric(value.kind) ->
         Done(h, Err("ctag: cannot convert %v to %v",
                     TypeName(TypeOf(value)) \o TypeName(ft)))
    [] ft.kind = "int" ->
         Done(Write(h, loc, VInt(ft.w, TruncInt(ft.w, ToInt64(value)))), NoErr)
    [] ft.kind = "uint" ->
         Done(Write(h, loc, VUint(ft.w, TruncUint(ft.w, ToUint64(value)))), NoErr)
    [] ft.kind = "float" -> Done(Write(h, loc, VFloat(ft.w, ToFloat64(value))), NoErr)
    [] OTHER -> Done(h, Err("ctag: unsupported numeric type %v", TypeName(ft)))

RECURSIVE setValue(_, _, _)
RECURSIVE setPointerValue(_, _, _)
RECURSIVE SetField(_, _, _)
RECURSIVE stringElems(_, _, _, _, _)
RECURSIVE sourceElems(_, _, _, _, _)
RECURSIVE structFields(_, _, _, _, _)

\* mapVal.MapIndex(key).IsValid(), and the entry's Interface()
MapHas(m, k) == \E j \in 1..Len(m.keys) : m.keys[j] = k
MapGet(m, k) == Interface(m.vals[CHOOSE j \in 1..Len(m.keys) : m.keys[j] = k])

\* The lookup that knows only the declared name
tagNameDeclared(d) == d.name

\* lines 538-543: the name before the first comma of the json annotation,
\* the field's declared name when there is none
tagName(d) ==
  IF d.tag.json # S_empty /\ Split(d.tag.json)[1] # S_empty
  THEN Split(d.tag.json)[1]
  ELSE d.name

\* lines 559-563 for field i (from 1): r is what SetField returned for the
\* address of the field
structField(loc, decls, mapVal, i, r) ==
  IF IsErr(r.err)
  THEN Done(r.heap, WrapErr("ctag: error setting field %s: %w", decls[i].name, r.err))
  ELSE structFields(r.heap, loc, decls, mapVal, i + 1)

\* The address of field i of the struct at loc: fieldVal.Addr().Interface()
FieldAddr(h, loc, i) ==
  VPtr([loc EXCEPT !.path = Append(@, i)],
       TypeOf(Read(h, [loc EXCEPT !.path = Append(@, i)])))

\* lines 526-564: the fields from the i-th on.  The struct is reached through
\* a pointer, so every exported field can be set
structFields(h, loc, decls, mapVal, i) ==
  IF i > Len(decls) THEN Done(h, NoErr)
  ELSE IF ~decls[i].exported \/ decls[i].tag.json = S_dash
  THEN structFields(h, loc, decls, mapVal, i + 1)
  ELSE IF MapHas(mapVal, tagName(decls[i]))
  THEN structField(loc, decls, mapVal, i,
                   SetField(h, FieldAddr(h, loc, i), MapGet(mapVal, tagName(decls[i]))))
  ELSE IF tagName(decls[i]) # decls[i].name /\ MapHas(mapVal, decls[i].name)
  THEN structField(loc, decls, mapVal, i,
                   SetField(h, FieldAddr(h, loc, i), MapGet(mapVal, decls[i].name)))
  ELSE structFields(h, loc, decls, mapVal, i + 1)

setStructFromMap(h, loc, mapVal) ==
  structFields(h, loc, TypeOf(Read(h, loc)).decls, mapVal, 1)

setStructValue(h, loc, value) ==
  LET ft == TypeOf(Read(h, loc)) IN
  IF AssignableTo(TypeOf(value), ft) THEN Done(Write(h, loc, value), NoErr)
  ELSE IF value.kind = "map" THEN setStructFromMap(h, loc, value)
  ELSE Done(h, Err("ctag: cannot convert %T to %v", TypeName(TypeOf(value)) \o TypeName(ft)))

\* reflect.MakeSlice gives the new slice storage of its own: the model
\* allocates each element as a cell of the heap, at NewCell(h)
NewCell(h) == [base |-> Len(h) + 1, path |-> <<>>]
Elems(h, e, items) == [heap |-> h, err |-> e, items |-> items]

\* lines 414-416 for part i (from 0): r is what setValue returned for the
\* element at cell
stringElem(e, parts, i, items, cell, r) ==
  IF IsErr(r.err)
  THEN Elems(r.heap, WrapErr("ctag: error converting slice element %d: %w",
                             NatDigits(i), r.err), items)
  ELSE stringElems(r.heap, e, parts, i + 1, Append(items, Read(r.heap, cell)))

\* The loop handing each part to setValue as it stands, spaces included
stringElemsNoTrim(h, e, parts, i, items) ==
  IF i >= Len(parts) THEN Elems(h, NoErr, items)
  ELSE stringElem(e, parts, i, items, NewCell(h),
                  setValue(Append(h, Zero(e)), NewCell(h), VString(parts[i + 1])))

\* lines 413-417: the parts from the i-th on; items are the elements set
stringElems(h, e, parts, i, items) ==
  IF i >= Len(parts) THEN Elems(h, NoErr, items)
  ELSE stringElem(e, parts, i, items, NewCell(h),
                  setValue(Append(h, Zero(e)), NewCell(h),
                           VString(TrimSpace(parts[i + 1]))))

\* A loop that stores each element in the destination as soon as it is set
storeSliceEager(loc, e, r) ==
  Done(Write(r.heap, loc, VSlice(e, FALSE, r.items)), r.err)

\* lines 419, 592: fieldVal.Set(slice) when every element was set
storeSlice(loc, e, r) ==
  IF IsErr(r.err) THEN Done(r.heap, r.err)
  ELSE Done(Write(r.heap, loc, VSlice(e, FALSE, r.items)), NoErr)

setSliceFromString(h, loc, str) ==
  IF str = S_empty
  THEN Done(Write(h, loc, VSlice(TypeOf(Read(h, loc)).elem, FALSE, <<>>)), NoErr)
  ELSE storeSlice(loc, TypeOf(Read(h, loc)).elem,
                  stringElems(h, TypeOf(Read(h, loc)).elem, Split(str), 0, <<>>))

\* lines 581-584 for source element i (from 0): r is what SetField returned
\* for the address of the element at cell
sourceElem(e, source, i, items, cell, r) ==
  IF IsErr(r.err)
  THEN Elems(r.heap, WrapErr("ctag: error converting slice element %d: %w",
                             NatDigits(i), r.err), items)
  ELSE sourceElems(r.heap, e, source, i + 1, Append(items, Read(r.heap, cell)))

\* The loop passing over the nil elements of the source
sourceElemsSkipNil(h, e, source, i, items) ==
  IF i >= Len(source) THEN Elems(h, NoErr, items)
  ELSE IF Interface(source[i + 1]) = Nil THEN sourceElems(h, e, source, i + 1, items)
  ELSE sourceElem(e, source, i, items, NewCell(h),
                  SetField(Append(h, Zero(e)), VPtr(NewCell(h), e),
                           Interface(source[i + 1])))

\* lines 577-590: the source elements from the i-th on; the elements of a
\* slice can be addressed, so line 582 is the branch taken
sourceElems(h, e, source, i, items) ==
  IF i >= Len(source) THEN Elems(h, NoErr, items)
  ELSE sourceElem(e, source, i, items, NewCell(h),
                  SetField(Append(h, Zero(e)), VPtr(NewCell(h), e),
                           Interface(source[i + 1])))

setSliceFromSlice(h, loc, sourceSlice) ==
  IF Len(sourceSlice.items) = 0
  THEN Done(Write(h, loc, VSlice(TypeOf(Read(h, loc)).elem, FALSE, <<>>)), NoErr)
  ELSE storeSlice(loc, TypeOf(Read(h, loc)).elem,
                  sourceElems(h, TypeOf(Read(h, loc)).elem, sourceSlice.items, 0, <<>>))

setSliceValue(h, loc, value) ==
  LET ft == TypeOf(Read(h, loc)) IN
  IF AssignableTo(TypeOf(value), ft) THEN Done(Write(h, loc, value), NoErr)
  ELSE CASE value.kind = "string" -> setSliceFromString(h, loc, value.s)
         [] value.kind = "slice" -> setSliceFromSlice(h, loc, value)
         [] OTHER ->
              IF AssignableTo(TypeOf(value), ft.elem)
              THEN Done(Write(h, loc, VSlice(ft.elem, FALSE, <<Boxed(ft.elem, value)>>)), NoErr)
              ELSE Done(h, Err("ctag: cannot convert %T to %v",
                               TypeName(TypeOf(value)) \o TypeName(ft)))

\* A pointer destination given a pointee of its own at every call
setPointerValueFresh(h, loc, value) ==
  LET h1 == Append(h, Zero(Read(h, loc).elem)) IN
  setValue(Write(h1, loc, VPtr([base |-> Len(h1), path |-> <<>>], Read(h, loc).elem)),
           [base |-> Len(h1), path |-> <<>>], value)

setPointerValue(h, loc, value) ==
  LET p == Read(h, loc) IN
  IF p.loc = NilLoc
  THEN LET h1 == Append(h, Zero(p.elem))
           new == [base |-> Len(h1), path |-> <<>>]
       IN setValue(Write(h1, loc, VPtr(new, p.elem)), new, value)
  ELSE setValue(h, p.loc, value)

setValue(h, loc, value) ==
  LET ft == TypeOf(Read(h, loc)) IN
  IF value = Nil THEN Done(Write(h, loc, Zero(ft)), NoErr)
  ELSE IF AssignableTo(TypeOf(value), ft) THEN Done(Write(h, loc, Boxed(ft, value)), NoErr)
  ELSE CASE ft.kind = "ptr" -> setPointerValue(h, loc, value)
         [] ft.kind = "iface" -> Done(Write(h, loc, Boxed(ft, value)), NoErr)
         [] ft.kind = "struct" -> setStructValue(h, loc, value)
         [] ft.kind = "slice" -> setSliceValue(h, loc, value)
         [] ft.kind = "map" ->
              Done(h, Err("ctag: cannot convert %T to %v",
                          TypeName(TypeOf(value)) \o TypeName(ft)))
         [] ft.kind = "string" -> Done(Write(h, loc, VString(FormatV(value))), NoErr)
         [] OTHER ->
              IF value.kind = "string" THEN setFromString(h, loc, value.s)
              ELSE IF isNumeric(value.kind) /\ isNumeric(ft.kind)
                   THEN setNumericValue(h, loc, value)
              ELSE Done(h, Err("ctag: cannot convert %T to %v",
                               TypeName(TypeOf(value)) \o TypeName(ft)))

\* SetField looking at the value first: nil is nothing to set
SetFieldNilFirst(h, field, value) ==
  IF value = Nil THEN Done(h, NoErr)
  ELSE IF field.kind # "ptr"
  THEN Done(h, Err("ctag: field must be a pointer, got %T", TypeName(TypeOf(field))))
  ELSE IF field.loc = NilLoc THEN Done(h, Err("ctag: field pointer is nil", <<>>))
  ELSE setValue(h, field.loc, value)

\* SetField giving a pointer destination a pointer to the zero value for nil
SetFieldNilAllocates(h, field, value) ==
  IF field.kind # "ptr"
  THEN Done(h, Err("ctag: field must be a pointer, got %T", TypeName(TypeOf(field))))
  ELSE IF field.loc = NilLoc THEN Done(h, Err("ctag: field pointer is nil", <<>>))
  ELSE IF value = Nil /\ Read(h, field.loc).kind = "ptr"
  THEN Done(Write(Append(h, Zero(Read(h, field.loc).elem)), field.loc,
                  VPtr(NewCell(h), Read(h, field.loc).elem)), NoErr)
  ELSE setValue(h, field.loc, value)

\* SetField(field, value): field is what the caller passed as `field any`
SetField(h, field, value) ==
  IF field.kind # "ptr"
  THEN Done(h, Err("ctag: field must be a pointer, got %T", TypeName(TypeOf(field))))
  ELSE IF field.loc = NilLoc THEN Done(h, Err("ctag: field pointer is nil", <<>>))
  ELSE setValue(h, field.loc, value)

\* -------------------------------------------------------------- processors
\* A TagProcessor is caller code.  The model's processors are the two of the
\* test file and three more of the same shape:
\*   nil      no processor (GetTags)
\*   noop     returns nil
\*   rename   testProcessor: tag.Name = "processed_" + tag.Name
\*   set      setFieldProcessor: SetField(field, val) when tag.Name == target
\*   fail     returns an error when tag.Name == target
\*   rewrite  overwrites tag.Name, tag.Options and tag.Field
Proc(kind, target, val) == [kind |-> kind, target |-> target, val |-> val]
NoProc == Proc("nil", <<>>, Nil)
S_processed == <<"p", "r", "o", "c", "e", "s", "s", "e", "d", "_">>
ProcFailure == Err("processor failed", <<>>)

\* What a processor that returns SetField's error leaves behind
processorResult(r, tag) == [err |-> r.err, tag |-> tag, heap |-> r.heap]

\* p.Process(field, &tag): the error returned, the tag and the heap after it
Process(p, field, tag, h) ==
  CASE p.kind = "rename" ->
         [err |-> NoErr, tag |-> [tag EXCEPT !.Name = S_processed \o @], heap |-> h]
    [] p.kind = "set" /\ tag.Name = p.target ->
         processorResult(SetField(h, field, p.val), tag)
    [] p.kind = "fail" /\ tag.Name = p.target ->
         [err |-> ProcFailure, tag |-> tag, heap |-> h]
    [] p.kind = "rewrite" ->
         [err |-> NoErr,
          tag |-> [tag EXCEPT !.Name = S_dash, !.Options = <<>>, !.Field = p.val],
          heap |-> h]
    [] OTHER -> [err |-> NoErr, tag |-> tag, heap |-> h]

\* ------------------------------------------------------------------ walker
CTag(key, name, options, field) ==
  [Key |-> key, Name |-> name, Options |-> options, Field |-> field]

\* parse taking the field's value as it is, without reflect.Indirect
parseNoIndirect(key, tagStr, fval) ==
  CTag(key, SplitN2(tagStr)[1],
       IF Len(SplitN2(tagStr)) > 1 THEN Split(SplitN2(tagStr)[2]) ELSE <<>>,
       Interface(fval))

\* parse(key, tagStr, fv); fval is the value fv holds
parse(key, tagStr, fval) ==
  LET parts == SplitN2(tagStr) IN
  CTag(key, parts[1],
       IF Len(parts) > 1 THEN Split(parts[2]) ELSE <<>>,
       IF IsNilPtr(fval) THEN Nil ELSE Interface(fval))

RECURSIVE Chase(_, _)
\* for fv.Kind() == reflect.Ptr { if fv.IsNil() { break }; fv = fv.Elem() }
Chase(h, fv) ==
  LET x == RVGet(h, fv) IN
  IF x.kind = "ptr" /\ x.loc # NilLoc THEN Chase(h, RVElem(h, fv)) ELSE fv

\* What a walk carries: the tags so far, the embedded records queued, the
\* heap, and (ghosts of the model) for every tag the declaration path of the
\* field it came from, and the log of the processor's invocations: the field's
\* declaration path, the handle and the tag name passed, the error returned.
Walk(tags, srcs, emb, h, log, err) ==
  [tags |-> tags, srcs |-> srcs, emb |-> emb, heap |-> h, log |-> log, err |-> err]

\* append(tags, tag), with the ghost of the field the tag came from
appendTag(acc, src, tag) ==
  [acc EXCEPT !.tags = Append(@, tag), !.srcs = Append(@, src)]

\* processed without line 636: the entry keeps the value read before Process
processedNoReread(acc, src, originalField, handle, name, r) ==
  LET call == [src |-> src, field |-> handle, name |-> name, err |-> r.err] IN
  IF IsErr(r.err)
  THEN [acc EXCEPT !.heap = r.heap, !.log = Append(@, call),
                   !.err = WrapErr("error processing field: %w", <<>>, r.err)]
  ELSE appendTag([acc EXCEPT !.heap = r.heap, !.log = Append(@, call)], src, r.tag)

\* processed by a walker that invokes Process a second time for the entry
processedTwice(acc, src, originalField, handle, name, r) ==
  LET call == [src |-> src, field |-> handle, name |-> name, err |-> r.err] IN
  IF IsErr(r.err)
  THEN [acc EXCEPT !.heap = r.heap, !.log = Append(@, call),
                   !.err = WrapErr("error processing field: %w", <<>>, r.err)]
  ELSE appendTag([acc EXCEPT !.heap = r.heap, !.log = Append(Append(@, call), call)], src,
                 IF CanSet(originalField)
                 THEN [r.tag EXCEPT !.Field = Interface(RVGet(r.heap, originalField))]
                 ELSE r.tag)

\* lines 632-643: what getTags does with r, the outcome of p.Process(handle,
\* &tag): the wrapped error, or the entry appended, its Field read again from
\* the field (line 636) when Process was given the field's address
processed(acc, src, originalField, handle, name, r) ==
  LET call == [src |-> src, field |-> handle, name |-> name, err |-> r.err] IN
  IF IsErr(r.err)
  THEN [acc EXCEPT !.heap = r.heap, !.log = Append(@, call),
                   !.err = WrapErr("error processing field: %w", <<>>, r.err)]
  ELSE appendTag([acc EXCEPT !.heap = r.heap, !.log = Append(@, call)], src,
                 IF CanSet(originalField)
                 THEN [r.tag EXCEPT !.Field = Interface(RVGet(r.heap, originalField))]
                 ELSE r.tag)

\* lines 628-644: the field's own entry, through the processor when there is
\* one: Process gets the field's address when the field can be set, and
\* tag.Field otherwise
emit(key, v, p, dp, i, fval, tagStr, acc) ==
  LET tag == parse(key, tagStr, fval)
      originalField == RVField(acc.heap, v, i)
      handle == IF CanSet(originalField) THEN AddrOf(acc.heap, originalField) ELSE tag.Field
  IN IF p.kind = "nil" THEN appendTag(acc, dp \o <<i>>, tag)
     ELSE processed(acc, dp \o <<i>>, originalField, handle, tag.Name,
                    Process(p, handle, tag, acc.heap))

\* line 605 skipping the unexported fields that are embedded instead
skipUnexportedEmbedded(f) == ~f.exported /\ f.anon

\* line 605: an unexported field that is not embedded
skipUnexported(f) == ~f.exported /\ ~f.anon

\* line 617 without the "-" rule
skipByTagNoDash(tagStr, fval) == Contains(tagStr, S_omitempty) /\ IsZero(fval)

\* line 617 with omitempty skipping whatever the value
skipByTagAnyValue(tagStr, fval) == tagStr = S_dash \/ Contains(tagStr, S_omitempty)

\* line 617: the "-" annotation, or omitempty on a zero value
skipByTag(tagStr, fval) ==
  tagStr = S_dash \/ (Contains(tagStr, S_omitempty) /\ IsZero(fval))

RECURSIVE getTags(_, _, _, _, _, _)
RECURSIVE fieldLoop(_, _, _, _, _, _)
RECURSIVE embeddedLoop(_, _, _, _, _)

\* tags = append(tags, nestedTags...): the walk a goes on from where the walk
\* n of a nested or embedded record ended
appendWalk(a, n) ==
  [a EXCEPT !.tags = @ \o n.tags, !.srcs = @ \o n.srcs,
            !.heap = n.heap, !.log = n.log, !.err = n.err]

\* lines 646-652: after the field's own entry (a1: the walk after lines
\* 628-644), the tags of the record the field holds
nestedWalk(key, fv, p, dp, isStruct, a1) ==
  IF IsErr(a1.err) \/ ~isStruct THEN a1
  ELSE appendWalk(a1, getTags(key, fv, p, dp, a1.heap, a1.log))

\* lines 601-653: the fields from the i-th on
fieldLoop(key, v, p, dp, i, acc) ==
  IF i > Len(RVGet(acc.heap, v).fields) \/ IsErr(acc.err) THEN acc
  ELSE
    LET f == RVGet(acc.heap, v).fields[i]
        fv == Chase(acc.heap, RVField(acc.heap, v, i))
        fval == RVGet(acc.heap, fv)
        tagStr == f.tag[key]
    IN IF skipUnexported(f) THEN fieldLoop(key, v, p, dp, i + 1, acc)
       ELSE IF skipByTag(tagStr, fval) THEN fieldLoop(key, v, p, dp, i + 1, acc)
       ELSE IF f.anon
       THEN fieldLoop(key, v, p, dp, i + 1,
                      IF fval.kind = "struct"
                      THEN [acc EXCEPT !.emb = Append(@, [rv |-> fv, dp |-> dp \o <<i>>])]
                      ELSE acc)
       ELSE fieldLoop(key, v, p, dp, i + 1,
                      nestedWalk(key, fv, p, dp \o <<i>>, fval.kind = "struct",
                                 IF tagStr # S_empty
                                 THEN emit(key, v, p, dp, i, fval, tagStr, acc)
                                 ELSE acc))

\* lines 655-661: the embedded records queued, from the j-th on
embeddedLoop(key, p, j, emb, acc) ==
  IF j > Len(emb) \/ IsErr(acc.err) THEN acc
  ELSE embeddedLoop(key, p, j + 1, emb,
                    appendWalk(acc, getTags(key, emb[j].rv, p, emb[j].dp,
                                            acc.heap, acc.log)))

\* The tags gathered before the error returned with it
walkResultPartial(b) == b

\* The result of a walk: nil and the error when there is one
walkResult(b) == IF IsErr(b.err) THEN [b EXCEPT !.tags = <<>>, !.srcs = <<>>] ELSE b

\* getTags with the embedded records' tags put before the record's own
getTagsEmbeddedFirst(key, v, p, dp, h, log) ==
  LET a == fieldLoop(key, v, p, dp, 1, Walk(<<>>, <<>>, <<>>, h, log, NoErr))
      e == embeddedLoop(key, p, 1, a.emb, [a EXCEPT !.tags = <<>>, !.srcs = <<>>])
  IN walkResult([e EXCEPT !.tags = @ \o a.tags, !.srcs = @ \o a.srcs])

\* lines 655-661 on the records the field loop a queued
embeddedWalk(key, p, a) == embeddedLoop(key, p, 1, a.emb, a)

\* getTags(key, v, p); on an error it returns nil and the error
getTags(key, v, p, dp, h, log) ==
  walkResult(embeddedWalk(key, p,
                          fieldLoop(key, v, p, dp, 1, Walk(<<>>, <<>>, <<>>, h, log, NoErr))))

\* reflect.Indirect(reflect.ValueOf(data)) is a struct
IndirectIsStruct(h, data) ==
  IF data.kind = "ptr"
  THEN data.loc # NilLoc /\ Read(h, data.loc).kind = "struct"
  ELSE data.kind = "struct"

\* GetTagsAndProcess following every pointer, where reflect.Indirect follows one
GetTagsAndProcessDeref(key, data, p, h) ==
  LET v == Chase(h, RVCopy(data)) IN
  IF RVGet(h, v).kind # "struct"
  THEN Walk(<<>>, <<>>, <<>>, h, <<>>,
            Err("ctag: expected input to be a struct; got: %T", TypeName(TypeOf(data))))
  ELSE getTags(key, v, p, <<>>, h, <<>>)

\* GetTagsAndProcess(key, data, processor)
GetTagsAndProcess(key, data, p, h) ==
  IF ~IndirectIsStruct(h, data)
  THEN Walk(<<>>, <<>>, <<>>, h, <<>>,
            Err("ctag: expected input to be a struct; got: %T", TypeName(TypeOf(data))))
  ELSE getTags(key, IF data.kind = "ptr" THEN RVAt(data.loc) ELSE RVCopy(data),
               p, <<>>, h, <<>>)

\* GetTags(key, data)
GetTags(key, data, h) == GetTagsAndProcess(key, data, NoProc, h)

\* ------------------------------------------------------------------ inputs
\* The caller's data is written as a tree in which Ref(t) stands for &t;
\* Load allocates the pointees on the heap, as the caller's program did.
Ref(t) == [kind |-> "ref", to |-> t]

RECURSIVE Load(_, _)
RECURSIVE LoadFields(_, _)
LoadFields(h, fs) ==
  IF fs = <<>> THEN [heap |-> h, fields |-> <<>>]
  ELSE LET r == Load(h, Head(fs).val)
           rest == LoadFields(r.heap, Tail(fs))
       IN [heap |-> rest.heap,
           fields |-> <<[Head(fs) EXCEPT !.val = r.val]>> \o rest.fields]

Load(h, t) ==
  CASE t.kind = "ref" ->
         LET r == Load(h, t.to)
             h2 == Append(r.heap, r.val)
         IN [heap |-> h2, val |-> VPtr([base |-> Len(h2), path |-> <<>>], TypeOf(r.val))]
    [] t.kind = "struct" ->
         LET r == LoadFields(h, t.fields) IN [heap |-> r.heap, val |-> VStruct(r.fields)]
    [] OTHER -> [heap |-> h, val |-> t]

\* The tag keys asked for, and the annotations the fields carry for "query".
Keys == {"query", "json"}
T_a == <<"a">>
T_b == <<"b">>
T_c == <<"c">>
T_d == <<"d">>
T_e == <<"e">>
T_a_omit == <<"a", ",">> \o S_omitempty
T_b_omit == <<"b", ",">> \o S_omitempty
T_d_omit == <<"d", ",">> \o S_omitempty
T_opt == <<",", "x">>
T_dash_opt == <<"-", ",", "x">>
\* A field without a query annotation carries a json one.
Tag(q) == [query |-> q, json |-> IF q = S_empty THEN <<"j">> ELSE S_empty]

I64(n) == VInt(64, n)
S_hi == <<"h", "i">>
\* F(exported, anon, query annotation, value): a field, named when it is placed
F(exported, anon, q, val) == Field(<<"F">>, exported, anon, Tag(q), val)
Named(name, f) == [f EXCEPT !.name = name]

\* The nested and embedded records of the inputs.
In0 == VStruct(<<Named(<<"X">>, F(TRUE, FALSE, T_c, I64(0)))>>)
In1 == VStruct(<<Named(<<"X">>, F(TRUE, FALSE, T_c, I64(7))),
                 Named(<<"Y">>, F(TRUE, FALSE, T_d_omit, I64(0)))>>)
In2 == VStruct(<<Named(<<"E">>, F(TRUE, TRUE, S_empty,
                                  VStruct(<<Named(<<"Z">>, F(TRUE, FALSE, T_e, I64(7)))>>))),
                 Named(<<"X">>, F(TRUE, FALSE, T_c, VString(S_hi)))>>)
In3 == VStruct(<<Named(<<"X">>, F(TRUE, FALSE, S_dash, I64(7))),
                 Named(<<"y">>, F(FALSE, FALSE, T_d, I64(7))),
                 Named(<<"Z">>, F(TRUE, FALSE, T_e, Ref(I64(7))))>>)

\* The fields a top-level record is made of.
LeafFields ==
  { F(TRUE, FALSE, T_a, I64(7)),
    F(TRUE, FALSE, T_a_omit, I64(0)),
    F(TRUE, FALSE, T_b_omit, I64(7)),
    F(TRUE, FALSE, S_dash, I64(7)),
    F(TRUE, FALSE, S_empty, I64(7)),
    F(TRUE, FALSE, T_opt, VString(S_hi)),
    F(TRUE, FALSE, T_dash_opt, I64(7)),
    F(TRUE, FALSE, S_omitempty, I64(0)),
    F(TRUE, FALSE, T_b, VString(S_hi)),
    F(TRUE, FALSE, T_a, VNilPtr(TInt(64))),
    F(TRUE, FALSE, T_b_omit, VNilPtr(TInt(64))),
    F(TRUE, FALSE, T_b, Ref(I64(7))),
    F(TRUE, FALSE, T_b_omit, Ref(I64(0))),
    F(TRUE, FALSE, T_a, Ref(VNilPtr(TInt(64)))),
    F(TRUE, FALSE, T_b, Ref(Ref(VString(S_hi)))),
    F(FALSE, FALSE, T_a, I64(7)),
    F(FALSE, FALSE, T_b_omit, I64(7)),
    F(TRUE, TRUE, T_a, I64(7)) }
RecordFields ==
  { F(TRUE, FALSE, T_a, In1),
    F(TRUE, FALSE, S_empty, In1),
    F(TRUE, FALSE, S_dash, In1),
    F(TRUE, FALSE, T_a_omit, In0),
    F(TRUE, FALSE, T_b, Ref(In1)),
    F(TRUE, FALSE, S_empty, In2),
    F(FALSE, FALSE, T_a, In1),
    F(TRUE, TRUE, S_empty, In1),
    F(TRUE, TRUE, S_dash, In3),
    F(TRUE, TRUE, T_a_omit, In0),
    F(TRUE, TRUE, T_b_omit, In1),
    F(FALSE, TRUE, S_empty, In3),
    F(TRUE, TRUE, S_empty, Ref(In1)) }
FieldChoices == LeafFields \cup RecordFields

TopNames == <<<<"A">>, <<"B">>, <<"C">>, <<"D">>>>
FieldSeqs(n) == [1..n -> FieldChoices]
\* The records handed to the walker: up to MaxFields fields, named in order
Records ==
  { VStruct([i \in 1..Len(fs) |-> Named(TopNames[i], fs[i])]) :
      fs \in UNION { FieldSeqs(n) : n \in 1..MaxFields } }

\* What else a caller can hand to GetTagsAndProcess
OtherData ==
  { Nil, I64(7), VString(S_hi), VNilPtr(TypeOf(In0)), Ref(Ref(In1)), Ref(I64(7)),
    VSlice(TInt(64), FALSE, <<I64(1)>>),
    VMap(TString, FALSE, <<T_a>>, <<VString(S_hi)>>) }

\* The processors handed to GetTagsAndProcess
S_12 == <<"1", "2">>
ProcValues == { Nil, I64(5), VString(S_12), VString(S_hi) }
Procs ==
  { Proc("noop", <<>>, Nil), Proc("rename", <<>>, Nil), Proc("rewrite", <<>>, I64(5)) }
  \cup { Proc("fail", t, Nil) : t \in {T_a, T_b, T_c} }
  \cup { Proc("set", t, x) : t \in {T_a, T_c}, x \in ProcValues }

\* ------------------------------------------------------------------- state
\* heap, data: the caller's memory and the argument it passes; heap0: the
\* heap before the call; key, proc: the other arguments of the call made;
\* tags, err: what the call returned; srcs, log: the ghosts of the walk.
VARIABLES heap, data, heap0, pc, key, proc, tags, err, srcs, log, value

vars == <<heap, data, heap0, pc, key, proc, tags, err, srcs, log, value, build>>

Init ==
  /\ \E t \in Records \cup { Ref(r) : r \in Records } \cup OtherData :
       LET l == Load(<<>>, t) IN heap = l.heap /\ data = l.val /\ heap0 = l.heap
  /\ pc = "ready"
  /\ key = ""
  /\ proc = NoProc
  /\ tags = <<>>
  /\ err = NoErr
  /\ srcs = <<>>
  /\ log = <<>>
  /\ value = Nil
  /\ build = "amd64"

Returned(k, p, r) ==
  /\ pc' = "done"
  /\ key' = k
  /\ proc' = p
  /\ heap' = r.heap
  /\ tags' = r.tags
  /\ err' = r.err
  /\ srcs' = r.srcs
  /\ log' = r.log
  /\ UNCHANGED <<data, heap0, value, build>>

\* tags, err := GetTags(k, data)
CallGetTags ==
  /\ pc = "ready"
  /\ \E k \in Keys : Returned(k, NoProc, GetTags(k, data, heap))

\* tags, err := GetTagsAndProcess(k, data, p)
CallGetTagsAndProcess ==
  /\ pc = "ready"
  /\ \E k \in Keys, p \in Procs : Returned(k, p, GetTagsAndProcess(k, data, p, heap))

Next == CallGetTags \/ CallGetTagsAndProcess

Spec == Init /\ [][Next]_vars

\* ------------------------------------------------ SetField called directly
\* The destinations: what the handle passed to SetField points to, of every
\* kind the package switches on, zero and not
\* A field of a record filled from a map: its declared name, whether it is
\* exported, its json annotation and the value it holds before the call
JF(name, exported, json, val) ==
  Field(name, exported, FALSE, [query |-> S_empty, json |-> json], val)
\* struct{ N string `json:"n"`; A int }{"hi", 7}
Rec1 == VStruct(<<JF(<<"N">>, TRUE, <<"n">>, VString(S_hi)),
                  JF(<<"A">>, TRUE, S_empty, I64(7))>>)
\* struct{ N int8 `json:"n,omitempty"`; H int `json:"-"`; u int `json:"u"`;
\*         P *int `json:",x"` }{7, 7, 7, nil}
Rec2 == VStruct(<<JF(<<"N">>, TRUE, <<"n", ",">> \o S_omitempty, VInt(8, 7)),
                  JF(<<"H">>, TRUE, S_dash, I64(7)),
                  JF(<<"u">>, FALSE, <<"u">>, I64(7)),
                  JF(<<"P">>, TRUE, <<",", "x">>, VNilPtr(TInt(64)))>>)

CoerceDests ==
  { I64(7), VInt(8, 7), VUint(64, 7), VUint(8, 7), VFloat(64, 15),
    VBool(TRUE), VBool(FALSE), VString(S_hi),
    VNilPtr(TInt(64)), Ref(I64(7)), VNilPtr(TBool), Ref(VNilPtr(TInt(64))),
    VIface(Nil), VIface(I64(7)),
    VSlice(TInt(64), TRUE, <<>>), VSlice(TInt(64), FALSE, <<I64(9)>>),
    VSlice(TInt(8), TRUE, <<>>), VSlice(TString, FALSE, <<VString(S_hi)>>),
    VSlice(TBool, TRUE, <<>>), VSlice(TFloat(64), TRUE, <<>>),
    VSlice(TIface, TRUE, <<>>), VSlice(TPtr(TInt(64)), TRUE, <<>>),
    VSlice(TSlice(TInt(64)), TRUE, <<>>),
    VMap(TString, FALSE, <<T_a>>, <<VString(S_hi)>>),
    In1, Rec1, Rec2 }

\* What a caller can pass as `field` that is no pointer, and the nil pointers
NotPointers == { Nil, I64(7), VString(S_hi), In0, VSlice(TInt(64), FALSE, <<I64(1)>>) }
NilPointers == { VNilPtr(TString), VNilPtr(TInt(64)), VNilPtr(TypeOf(In0)) }
Handles == { Ref(d) : d \in CoerceDests } \cup NotPointers \cup NilPointers

\* strings.Join(parts, ",")
RECURSIVE Join(_)
Join(parts) ==
  IF Len(parts) = 1 THEN parts[1] ELSE parts[1] \o <<",">> \o Join(Tail(parts))

\* The strings handed to SetField: the literals and non-literals of every
\* scalar kind, and the comma-separated lists of up to MaxParts parts
PartPool == { <<"1">>, <<" ", "2", " ">>, <<"x">>, S_empty }
ScalarStrings ==
  { S_12, S_hi, <<"3", "0", "0">>, <<"-", "1">>, <<"+", "7">>, <<"4", ".", "5">>,
    <<"-", "4", "2", ".", "9">>, <<"1", "2", "a">>, <<"1", ".", "2", ".", "3">>,
    <<"t", "r", "u", "e">>, <<"f", "a", "l", "s", "e">>, <<"0">>,
    <<"T", "R", "U", "E">>, <<"T", "r", "u", "e">>, <<"T">>, <<"t">>,
    <<"F", "A", "L", "S", "E">>, <<"F", "a", "l", "s", "e">>, <<"F">>, <<"f">>,
    <<"t", "R", "U", "E">>, <<"y", "e", "s">>,
    <<"t", "r", "u", "e", ",", "0">> }
ListStrings ==
  { Join(ps) : ps \in UNION { [1..n -> PartPool] : n \in 1..MaxParts } }

\* The numbers handed to SetField: inside and outside the 8-bit ranges,
\* negative, with and without a fraction
Numbers ==
  { I64(5), I64(300), I64(-1), I64(-129), VInt(8, -128), VUint(64, 42), VUint(8, 200),
    VFloat(64, 429), VFloat(64, -429), VFloat(64, -5), VFloat(64, 3005), VFloat(64, 70) }

\* The slices handed to SetField: []interface{} of up to MaxParts elements,
\* a nil one, and slices of strings, of numbers and of pointers
ElemPool == { VIface(I64(5)), VIface(VString(S_12)), VIface(VString(<<"x">>)), VIface(Nil) }
Slices ==
  { VSlice(TIface, FALSE, xs) : xs \in UNION { [1..n -> ElemPool] : n \in 0..MaxParts } }
  \cup { VSlice(TIface, TRUE, <<>>),
          VSlice(TString, FALSE, <<VString(<<"1">>), VString(S_12)>>),
          VSlice(TString, FALSE, <<VString(S_12), VString(S_hi), VString(<<"1">>)>>),
          VSlice(TInt(64), FALSE, <<I64(300), I64(-1)>>),
          VSlice(TFloat(64), FALSE, <<VFloat(64, 429)>>),
          VSlice(TPtr(TInt(64)), FALSE, <<VNilPtr(TInt(64))>>) }

\* The maps handed to SetField: map[string]interface{} of up to MaxKeys keys
\* among json names, declared names and a name no field has, holding "12",
\* 30.0, "x" or nil; and a map[string]string
KeyPool == <<<<"n">>, <<"N">>, <<"A">>, <<"H">>, <<"u">>, <<"P">>, <<"z">>>>
MapVals ==
  { VIface(VString(S_12)), VIface(VFloat(64, 300)), VIface(VString(<<"x">>)), VIface(Nil) }
KeyPicks(n) ==
  { f \in [1..n -> 1..Len(KeyPool)] : \A a \in 1..n : \A b \in 1..n : a < b => f[a] < f[b] }
Maps ==
  { VMap(TIface, FALSE, [j \in 1..Len(ks) |-> KeyPool[ks[j]]], vs) :
      ks \in UNION { KeyPicks(n) : n \in 0..MaxKeys }, vs \in UNION { [1..n -> MapVals] : n \in 0..MaxKeys } }
  \cup { VMap(TIface, TRUE, <<>>, <<>>),
          VMap(TString, FALSE, <<<<"n">>, <<"A">>>>, <<VString(S_12), VString(S_12)>>) }

CoerceValues ==
  { Nil, VBool(TRUE), In1 } \cup Numbers \cup Slices
  \cup { m \in Maps : Len(m.keys) = Len(m.vals) }
  \cup { VString(x) : x \in ScalarStrings \cup ListStrings }

InitCoerce ==
  /\ \E t \in Handles :
       LET l == Load(<<>>, t) IN heap = l.heap /\ data = l.val /\ heap0 = l.heap
  /\ build \in {"amd64", "arm64"}
  /\ pc = "ready"
  /\ key = ""
  /\ proc = NoProc
  /\ tags = <<>>
  /\ err = NoErr
  /\ srcs = <<>>
  /\ log = <<>>
  /\ value = Nil

Coerced(x, r) ==
  /\ pc' = "done"
  /\ value' = x
  /\ heap' = r.heap
  /\ err' = r.err
  /\ UNCHANGED <<data, heap0, key, proc, tags, srcs, log, build>>

\* err := SetField(data, x)
CallSetField ==
  /\ pc = "ready"
  /\ \E x \in CoerceValues : Coerced(x, SetField(heap, data, x))

NextCoerce == CallSetField

SpecCoerce == InitCoerce /\ [][NextCoerce]_vars

\* ------------------------------------------------------- reading the input
RECURSIVE StripPtr(_)
StripPtr(t) == IF t.kind = "ptr" THEN StripPtr(t.elem) ELSE t

RECURSIVE DeclAt(_, _)
\* The declaration of the field at a declaration path (pointers looked through)
DeclAt(t, path) ==
  LET d == StripPtr(t).decls[Head(path)] IN
  IF Len(path) = 1 THEN d ELSE DeclAt(d.type, Tail(path))

DataType == TypeOf(data)
IsPrefix(p, q) == Len(p) <= Len(q) /\ SubSeq(q, 1, Len(p)) = p
\* The first place where two paths, neither a prefix of the other, differ
FirstDiff(p, q) == CHOOSE k \in 1..Len(p) : p[k] # q[k] /\ SubSeq(p, 1, k - 1) = SubSeq(q, 1, k - 1)

\* n is the name token of annotation t: the text before its first comma
IsNameToken(n, t) ==
  /\ IsPrefix(n, t)
  /\ \A i \in 1..Len(n) : n[i] # S_comma
  /\ (Len(t) = Len(n) \/ t[Len(n) + 1] = S_comma)

HasOption(t, o) == Len(SplitN2(t)) > 1 /\ \E i \in 1..Len(Split(SplitN2(t)[2])) : Split(SplitN2(t)[2])[i] = o

\* ---------------------------------------------------------------------- C1
\* The order the claim gives to two entries by the declaration paths p and q
\* of their fields: a field's own entry before the entries nested in it;
\* otherwise, where the paths part, an embedded field's entries after those
\* of a field that is not embedded, and declaration order between two fields
\* of the same sort.
ComesBefore(t, p, q) ==
  IF IsPrefix(p, q) THEN p # q
  ELSE IF IsPrefix(q, p) THEN FALSE
  ELSE LET k == FirstDiff(p, q)
           pa == DeclAt(t, SubSeq(p, 1, k)).anon
           qa == DeclAt(t, SubSeq(q, 1, k)).anon
       IN IF pa # qa THEN qa ELSE p[k] < q[k]

\* A top-level field that no rule skips: exported, not embedded, annotated,
\* not "-" and without omitempty
PlainField(d, k) ==
  /\ d.exported /\ ~d.anon
  /\ d.tag[k] # S_empty /\ d.tag[k] # S_dash
  /\ ~Contains(d.tag[k], S_omitempty)

\* C1: with no processor, the entries GetTags returns are in field
\* declaration order, a nested record's entries right after the entry of the
\* field that holds it (or in its place) and before the next sibling's, and
\* the entries of embedded records after every other entry of the enclosing
\* record, in the order the embedded fields are declared; every entry is the
\* entry of the field it comes from, and every top-level field that no rule
\* skips has its entry.
C1_ExtractionOrder ==
  (pc = "done" /\ proc = NoProc /\ err = NoErr) =>
    /\ Len(tags) = Len(srcs)
    /\ \A i, j \in 1..Len(srcs) : i < j => ComesBefore(DataType, srcs[i], srcs[j])
    /\ \A i \in 1..Len(srcs) :
         /\ tags[i].Key = key
         /\ IsNameToken(tags[i].Name, DeclAt(DataType, srcs[i]).tag[key])
    /\ \A i \in 1..Len(StripPtr(DataType).decls) :
         PlainField(StripPtr(DataType).decls[i], key) => \E j \in 1..Len(srcs) : srcs[j] = <<i>>

\* An embedded record declared first and a nested record declared second:
\* the nested field's entry, the entry of its field, then the embedded one's
C1_Witness ==
  /\ pc = "done" /\ proc = NoProc /\ err = NoErr
  /\ srcs = << <<2>>, <<2, 1>>, <<1, 1>> >>
  /\ DeclAt(DataType, <<1>>).anon

\* ---------------------------------------------------------------------- C2
\* The declaration paths the walk touched: the fields that gave an entry and
\* the fields the processor was invoked for
Touched == { srcs[i] : i \in 1..Len(srcs) } \cup { log[i].src : i \in 1..Len(log) }

\* The field at declaration path q is not embedded and annotated exactly "-"
DashField(q) ==
  LET d == DeclAt(DataType, q) IN ~d.anon /\ d.tag[key] = S_dash

\* C2: under every processor (none, one that rewrites entries, one that
\* fails), a non-anonymous field annotated exactly "-" gives no entry, the
\* processor is not invoked for it, and no field of the record it holds gives
\* an entry or an invocation either.
C2_DashNeverAppears ==
  pc = "done" =>
    \A s \in Touched : \A k \in 1..Len(s) : ~DashField(SubSeq(s, 1, k))

\* A record whose second field is annotated "-" and holds a record with
\* annotated fields, walked with a processor that was invoked once, for the
\* first field
C2_Witness ==
  /\ pc = "done" /\ proc.kind \in {"rename", "rewrite"} /\ err = NoErr
  /\ Len(StripPtr(DataType).decls) = 2
  /\ DashField(<<2>>)
  /\ StripPtr(DeclAt(DataType, <<2>>).type).kind = "struct"
  /\ Len(log) = 1 /\ log[1].src = <<1>> /\ srcs = << <<1>> >>

\* ---------------------------------------------------------------------- C3
RECURSIVE Resolve(_, _)
\* The value at the end of a pointer chain: the first non-pointer, or the
\* nil pointer that ends it
Resolve(h, v) ==
  IF v.kind = "ptr" /\ v.loc # NilLoc THEN Resolve(h, Read(h, v.loc)) ELSE v

RECURSIVE ValAt(_, _, _)
\* The resolved value of the field at declaration path q of record value v
ValAt(h, v, q) ==
  LET x == Resolve(h, Resolve(h, v).fields[Head(q)].val) IN
  IF Len(q) = 1 THEN x ELSE ValAt(h, x, Tail(q))

\* The declaration paths of the fields the walk looks at: the fields of the
\* record passed, and the fields of the record held by a field that gave an
\* entry
Looked ==
  { <<i>> : i \in 1..Len(StripPtr(DataType).decls) } \cup
  UNION { { srcs[n] \o <<j>> : j \in 1..Len(StripPtr(DeclAt(DataType, srcs[n]).type).decls) } :
            n \in { m \in 1..Len(srcs) : ValAt(heap0, data, srcs[m]).kind = "struct" } }

OmitemptyField(q) == HasOption(DeclAt(DataType, q).tag[key], S_omitempty)
EntriesOf(q) == { i \in 1..Len(srcs) : srcs[i] = q }
IsOption(tag, o) == \E i \in 1..Len(tag.Options) : tag.Options[i] = o

\* C3 as claimed, for GetTags: every field with the option omitempty gives no
\* entry when its resolved value is zero and exactly one entry, with
\* omitempty among its options, when it is not.
C3_AsClaimed ==
  (pc = "done" /\ proc = NoProc /\ err = NoErr) =>
    \A q \in Looked :
      OmitemptyField(q) =>
        IF IsZero(ValAt(heap0, data, q))
        THEN q \notin Touched
        ELSE /\ Cardinality(EntriesOf(q)) = 1
             /\ \A i \in EntriesOf(q) : IsOption(tags[i], S_omitempty)

\* C3, amended: the same for every exported field that is not embedded.  The
\* zero case holds under every processor; the other one when the call
\* succeeds with no processor or with one that writes neither the record nor
\* the entry's options.
C3_Omitempty ==
  (pc = "done" /\ IndirectIsStruct(heap0, data)) =>
    \A q \in Looked :
      LET d == DeclAt(DataType, q) IN
      (OmitemptyField(q) /\ d.exported /\ ~d.anon) =>
        IF IsZero(ValAt(heap0, data, q))
        THEN q \notin Touched
        ELSE (err = NoErr /\ proc.kind \in {"nil", "noop", "rename"}) =>
               /\ Cardinality(EntriesOf(q)) = 1
               /\ \A i \in EntriesOf(q) : IsOption(tags[i], S_omitempty)
               /\ proc.kind # "nil" => Cardinality({ i \in 1..Len(log) : log[i].src = q }) = 1

\* A zero field and a non-zero field, both with omitempty, walked with a
\* processor: one entry and one invocation, for the second
C3_Witness ==
  /\ pc = "done" /\ proc.kind = "rename" /\ err = NoErr
  /\ Len(StripPtr(DataType).decls) = 2
  /\ OmitemptyField(<<1>>) /\ IsZero(ValAt(heap0, data, <<1>>))
  /\ OmitemptyField(<<2>>) /\ ~IsZero(ValAt(heap0, data, <<2>>))
  /\ srcs = << <<2>> >> /\ Len(log) = 1 /\ IsOption(tags[1], S_omitempty)

\* ---------------------------------------------------------------------- C4
\* C4: with no processor, no entry GetTags returns has an empty Name (the
\* annotation ",x" has an empty name token and an option).
C4_NoEmptyName ==
  (pc = "done" /\ proc = NoProc) => \A i \in 1..Len(tags) : tags[i].Name # S_empty

\* ---------------------------------------------------------------------- C5
\* C5: with no processor, no entry GetTags returns has the Name "-" (the
\* annotation "-,x" has the name token "-" and an option).
C5_NoDashName ==
  (pc = "done" /\ proc = NoProc) => \A i \in 1..Len(tags) : tags[i].Name # S_dash

\* ---------------------------------------------------------------------- C6
NotAStruct(e) == e.code = "ctag: expected input to be a struct; got: %T"

\* data is a struct value, or a non-nil pointer to a struct value
StructOrPointerToStruct ==
  \/ data.kind = "struct"
  \/ /\ data.kind = "ptr" /\ data.loc # NilLoc
     /\ heap0[data.loc.base].kind = "struct"

\* C6: GetTagsAndProcess returns the not-a-struct error exactly when data is
\* neither a struct nor a non-nil pointer to a struct (a scalar, a slice, a
\* map, nil, a nil pointer, a pointer to a pointer to a struct), and then it
\* returns no sequence and has not invoked the processor.
C6_StructOnly ==
  pc = "done" =>
    /\ NotAStruct(err) <=> ~StructOrPointerToStruct
    /\ NotAStruct(err) => (tags = <<>> /\ log = <<>> /\ heap = heap0)
    /\ NotAStruct(err) => err.detail = TypeName(TypeOf(data))

\* A pointer to a pointer to a struct, refused under a processor
C6_Witness ==
  /\ pc = "done" /\ proc.kind = "rename"
  /\ data.kind = "ptr" /\ data.loc # NilLoc
  /\ heap0[data.loc.base].kind = "ptr" /\ heap0[data.loc.base].loc # NilLoc
  /\ heap0[heap0[data.loc.base].loc.base].kind = "struct"
  /\ NotAStruct(err) /\ tags = <<>>

\* ---------------------------------------------------------------------- C7
ProcessorError(e) == e.code = "error processing field: %w"
\* What the same call gives with a processor that does nothing
NoopRun == GetTagsAndProcess(key, data, Proc("noop", <<>>, Nil), heap0)

\* C7: when Process returns an error for a field (top-level, nested or
\* embedded), that invocation is the last one, GetTagsAndProcess returns no
\* sequence, and its error wraps the error Process returned; it returns such
\* an error in no other case.
C7_FailFast ==
  pc = "done" =>
    /\ \A i \in 1..Len(log) :
         IsErr(log[i].err) =>
           /\ i = Len(log)
           /\ tags = <<>>
           /\ ProcessorError(err) /\ err.cause = log[i].err
    /\ ProcessorError(err) => (Len(log) > 0 /\ IsErr(log[Len(log)].err))

\* The processor fails for a field of a nested record, after an invocation
\* that succeeded and before fields it would otherwise have been invoked for
C7_Witness ==
  /\ pc = "done" /\ proc.kind = "fail" /\ ProcessorError(err)
  /\ Len(log) = 2 /\ Len(log[2].src) = 2 /\ ~IsErr(log[1].err)
  /\ Len(NoopRun.log) > 2 /\ Len(NoopRun.tags) > 2
  /\ tags = <<>>

\* ---------------------------------------------------------------------- C8
FailTargets == {T_a, T_b, T_c}
FailRun(t) == GetTagsAndProcess(key, data, Proc("fail", t, Nil), heap0)

\* C8: the error of a call whose processor failed at one field differs from
\* the error of the same call with the processor failing, with the same
\* error, at another field.
C8_ErrorNamesField ==
  (pc = "done" /\ proc.kind = "fail" /\ ProcessorError(err)) =>
    \A t \in FailTargets :
      LET r == FailRun(t) IN
      (ProcessorError(r.err) /\ r.log[Len(r.log)].src # log[Len(log)].src) => r.err # err

\* ---------------------------------------------------------------------- C9
RECURSIVE FieldAt(_, _, _)
\* The value the field at declaration path q of record v holds (pointers on
\* the way looked through, the field's own value as it is)
FieldAt(h, v, q) ==
  LET x == Resolve(h, v).fields[Head(q)].val IN
  IF Len(q) = 1 THEN x ELSE FieldAt(h, x, Tail(q))

RECURSIVE Deep(_, _)
\* A value with what its pointers point to, to compare across heaps
Deep(h, v) ==
  CASE v.kind = "ptr" /\ v.loc # NilLoc -> Ref(Deep(h, Read(h, v.loc)))
    [] v.kind = "struct" ->
         VStruct([i \in 1..Len(v.fields) |->
                    [v.fields[i] EXCEPT !.val = Deep(h, v.fields[i].val)]])
    [] OTHER -> v

\* What Go's rules make of the processor's value in a destination whose
\* pointers end in type t: nil gives the zero value, "12" parses to 12 in an
\* integer, 5 prints as "5" in a string
CoercedInto(t, x) ==
  CASE x = Nil -> Zero(t)
    [] t.kind = "int" /\ x = I64(5) -> I64(5)
    [] t.kind = "int" /\ x = VString(S_12) -> I64(12)
    [] t.kind = "string" /\ x = I64(5) -> VString(<<"5">>)
    [] t.kind = "string" /\ x.kind = "string" -> x
    [] OTHER -> Nil

\* The invocations made for an entry named as the processor's target
TargetCalls == { i \in 1..Len(log) : log[i].name = proc.target }
\* The fields beside the path q: at each level, the siblings of the field on it
Beside(q) ==
  UNION { { SubSeq(q, 1, k - 1) \o <<j>> :
              j \in 1..Len(StripPtr(IF k = 1 THEN DataType
                                    ELSE DeclAt(DataType, SubSeq(q, 1, k - 1)).type).decls)
                   \ {q[k]} } :
          k \in 1..Len(q) }

\* C9: a record passed by reference and a processor that calls
\* SetField(handle, x) for one field and does nothing for the others, the
\* call succeeding: the handle is the field's storage; after the call the
\* field holds x coerced to its type (nil: the zero value of the field's
\* type), every other field of the record is as before, what it points to
\* included, and the field's entry carries the field's value after the call.
C9_SetThroughHandle ==
  (pc = "done" /\ proc.kind = "set" /\ data.kind = "ptr" /\ err = NoErr
     /\ Cardinality(TargetCalls) = 1) =>
    \A c \in TargetCalls :
      LET q == log[c].src
          now == FieldAt(heap, data, q)
          ft == DeclAt(DataType, q).type
      IN /\ log[c].field = VPtr(log[c].field.loc, ft)
         /\ Read(heap, log[c].field.loc) = now
         /\ IF proc.val = Nil THEN now = Zero(ft)
            ELSE Resolve(heap, now) = CoercedInto(StripPtr(ft), proc.val)
         /\ \A o \in Beside(q) :
              Deep(heap, FieldAt(heap, data, o)) = Deep(heap0, FieldAt(heap0, data, o))
         /\ \A i \in EntriesOf(q) : tags[i].Field = Interface(now)
         /\ Cardinality(EntriesOf(q)) = 1

\* The record {A int `a` = 7, B string `b` = "hi"} by reference and
\* SetField(handle of A, "12"): A holds 12, B is untouched, A's entry carries 12
C9_Witness ==
  /\ pc = "done" /\ proc = Proc("set", T_a, VString(S_12)) /\ data.kind = "ptr" /\ err = NoErr
  /\ Len(tags) = 2
  /\ Len(StripPtr(DataType).decls) = 2
  /\ FieldAt(heap0, data, <<1>>) = I64(7)
  /\ FieldAt(heap, data, <<1>>) = I64(12)
  /\ FieldAt(heap, data, <<2>>) = VString(S_hi)
  /\ tags[1].Field = I64(12) /\ tags[2].Field = VString(S_hi)

\* --------------------------------------------------------------------- C10
NotAPointer(e) == e.code = "ctag: field must be a pointer, got %T"

\* C10: for a record passed by value or by reference, Process always gets a
\* non-nil pointer as its first argument, and a processor that calls SetField
\* on it never gets the not-a-pointer error.
C10_HandleIsPointer ==
  pc = "done" =>
    \A i \in 1..Len(log) :
      /\ log[i].field.kind = "ptr" /\ log[i].field.loc # NilLoc
      /\ ~NotAPointer(log[i].err)

\* --------------------------------------------------------------------- C11
\* The field at declaration path q is unexported and not embedded
UnexportedField(q) ==
  LET d == DeclAt(DataType, q) IN ~d.exported /\ ~d.anon

\* C11: under every processor, whatever its annotation and its type, an
\* unexported field that is not embedded gives no entry and no invocation of
\* the processor, and neither does any field of the record it holds.
C11_UnexportedSkipped ==
  pc = "done" =>
    \A s \in Touched : \A k \in 1..Len(s) : ~UnexportedField(SubSeq(s, 1, k))

\* An unexported field annotated "a" that holds a record with annotated
\* fields, before an exported field: one entry, one invocation, for the second
C11_Witness ==
  /\ pc = "done" /\ proc.kind \in {"rename", "noop"} /\ err = NoErr
  /\ Len(StripPtr(DataType).decls) = 2
  /\ UnexportedField(<<1>>)
  /\ DeclAt(DataType, <<1>>).tag[key] = T_a
  /\ DeclAt(DataType, <<1>>).type.kind = "struct"
  /\ srcs = << <<2>> >> /\ Len(log) = 1 /\ log[1].src = <<2>>

\* --------------------------------------------------------------------- C12
\* The field at declaration path q is one the walker retains (exported, not
\* embedded), of pointer type, annotated for the key, not with "-" and
\* without omitempty
AnnotatedPointerField(q) ==
  LET d == DeclAt(DataType, q) IN
  /\ d.type.kind = "ptr" /\ d.exported /\ ~d.anon
  /\ d.tag[key] # S_empty /\ d.tag[key] # S_dash
  /\ ~Contains(d.tag[key], S_omitempty)

\* C12: with no processor the call on a record does not fail, and every
\* annotated field of pointer type gives exactly one entry, whose Field is the
\* value at the end of the chain of pointers when every link is non-nil and
\* nil when a link is nil.
C12_PointerChain ==
  (pc = "done" /\ proc = NoProc /\ IndirectIsStruct(heap0, data)) =>
    /\ err = NoErr
    /\ \A q \in Looked :
         AnnotatedPointerField(q) =>
           /\ Cardinality(EntriesOf(q)) = 1
           /\ \A i \in EntriesOf(q) :
                tags[i].Field = IF ValAt(heap0, data, q).kind = "ptr" THEN Nil
                                ELSE ValAt(heap0, data, q)

\* A pointer to a pointer to "hi" and a pointer to a nil pointer: the entries
\* carry "hi" and nil
C12_Witness ==
  /\ pc = "done" /\ proc = NoProc /\ err = NoErr
  /\ Len(StripPtr(DataType).decls) = 2
  /\ AnnotatedPointerField(<<1>>) /\ AnnotatedPointerField(<<2>>)
  /\ DeclAt(DataType, <<1>>).type.elem.kind = "ptr"
  /\ DeclAt(DataType, <<2>>).type.elem.kind = "ptr"
  /\ Len(tags) = 2
  /\ tags[1].Field = VString(S_hi) /\ tags[2].Field = Nil

\* ------------------------------------------- reading a SetField call
\* The handle passed is a non-nil pointer
ValidHandle == data.kind = "ptr" /\ data.loc # NilLoc
\* What the handle pointed to before the call, and what it points to after
Dest0 == Read(heap0, data.loc)
Dest == Read(heap, data.loc)
\* The storage the caller had before the call is as it was
Untouched == SubSeq(heap, 1, Len(heap0)) = heap0
NilPointer(e) == e.code = "ctag: field pointer is nil"

\* --------------------------------------------------------------------- C13
\* C13: whatever the value (nil, a number, a string, a slice), SetField on a
\* handle that is not a pointer returns the not-a-pointer error, on a nil
\* pointer the nil-pointer error, and in both cases has written nothing.
C13_HandleCheckedFirst ==
  pc = "done" =>
    /\ data.kind # "ptr" => (NotAPointer(err) /\ heap = heap0)
    /\ IsNilPtr(data) => (NilPointer(err) /\ heap = heap0)
    /\ ValidHandle => (~NotAPointer(err) /\ ~NilPointer(err))

\* SetField(7, nil) returned the not-a-pointer error
C13_Witness ==
  /\ pc = "done" /\ data = I64(7) /\ value = Nil
  /\ NotAPointer(err) /\ err.detail = <<"int">> /\ heap = heap0

\* --------------------------------------------------------------------- C14
\* C14: SetField(handle, nil) on a valid handle succeeds and leaves the
\* destination equal to the zero value of its type, whatever it held (a
\* pointer destination is nil afterwards, and what it pointed to is as it
\* was); no other storage of the caller changes.
C14_NilGivesZero ==
  (pc = "done" /\ ValidHandle /\ value = Nil) =>
    /\ err = NoErr
    /\ Dest = Zero(TypeOf(Dest0))
    /\ Len(heap) = Len(heap0)
    /\ \A b \in 1..Len(heap0) : b # data.loc.base => heap[b] = heap0[b]

\* A pointer destination that pointed to 7 is nil after SetField(handle, nil)
C14_Witness ==
  /\ pc = "done" /\ ValidHandle /\ value = Nil /\ err = NoErr
  /\ Dest0.kind = "ptr" /\ Dest0.loc # NilLoc /\ Read(heap0, Dest0.loc) = I64(7)
  /\ Dest = VNilPtr(TInt(64))

\* --------------------------------------------------------------------- C15
\* The strings of the model that are literals of each scalar kind, as Go's
\* strconv reads them: base-10 integers with an optional sign, unsigned ones
\* without a sign, decimal floats, and the twelve spellings of a boolean
IntLiterals ==
  { S_12, <<"3", "0", "0">>, <<"-", "1">>, <<"+", "7">>, <<"0">>, <<"1">> }
UintLiterals == { S_12, <<"3", "0", "0">>, <<"0">>, <<"1">> }
FloatLiterals == IntLiterals \cup { <<"4", ".", "5">>, <<"-", "4", "2", ".", "9">> }
TrueLiterals ==
  { <<"1">>, <<"t">>, <<"T">>, <<"t", "r", "u", "e">>, <<"T", "R", "U", "E">>,
    <<"T", "r", "u", "e">> }
FalseLiterals ==
  { <<"0">>, <<"f">>, <<"F">>, <<"f", "a", "l", "s", "e">>, <<"F", "A", "L", "S", "E">>,
    <<"F", "a", "l", "s", "e">> }
LiteralsOf(k) ==
  CASE k = "int" -> IntLiterals
    [] k = "uint" -> UintLiterals
    [] k = "float" -> FloatLiterals
    [] k = "bool" -> TrueLiterals \cup FalseLiterals
ParseErrorOf(k) ==
  CASE k = "int" -> "ctag: cannot parse %q as int: %w"
    [] k = "uint" -> "ctag: cannot parse %q as uint: %w"
    [] k = "float" -> "ctag: cannot parse %q as float: %w"
    [] k = "bool" -> "ctag: cannot parse %q as bool: %w"
ParsedKinds == {"int", "uint", "float", "bool"}

\* C15: a destination of kind int, uint, float or bool and a string that is
\* not a literal of that kind: SetField returns the kind's parse error, which
\* carries the string, and the destination and the rest of the heap are as
\* they were.
C15_ParseErrorKeepsValue ==
  (/\ pc = "done" /\ ValidHandle /\ value.kind = "string"
   /\ Dest0.kind \in ParsedKinds
   /\ value.s \notin LiteralsOf(Dest0.kind)) =>
      /\ err.code = ParseErrorOf(Dest0.kind)
      /\ err.detail = value.s
      /\ IsErr(err.cause)
      /\ Dest = Dest0
      /\ heap = heap0

\* "1.2.3" into a float64 that holds 1.5: the parse error, and 1.5 still
C15_Witness ==
  /\ pc = "done" /\ ValidHandle
  /\ value = VString(<<"1", ".", "2", ".", "3">>)
  /\ Dest0 = VFloat(64, 15) /\ Dest = VFloat(64, 15)
  /\ err.code = ParseErrorOf("float")

\* --------------------------------------------------------------------- C16
\* C16: a pointer destination and a value whose coercion into the pointee
\* fails: SetField returns an error and the destination is what it was, a nil
\* pointer still nil, a non-nil pointer still pointing to the same pointee,
\* which holds what it held.
C16_PointerUnchangedOnFailure ==
  (pc = "done" /\ ValidHandle /\ Dest0.kind = "ptr" /\ IsErr(err)) =>
    /\ Dest = Dest0
    /\ Untouched

\* --------------------------------------------------------------------- C17
\* A string into a bool destination
BoolFromString ==
  pc = "done" /\ ValidHandle /\ Dest0.kind = "bool" /\ value.kind = "string"

\* C17 as stated: exactly "true" and "1" give true, "false" and "0" give
\* false, and every other string fails with the parse error.
C17_AsClaimed ==
  BoolFromString =>
    CASE value.s \in {<<"t", "r", "u", "e">>, <<"1">>} ->
           err = NoErr /\ Dest = VBool(TRUE)
      [] value.s \in {<<"f", "a", "l", "s", "e">>, <<"0">>} ->
           err = NoErr /\ Dest = VBool(FALSE)
      [] OTHER -> err.code = ParseErrorOf("bool")

\* C17: a string into a bool destination succeeds for exactly twelve strings:
\* "1", "t", "T", "TRUE", "true", "True" give true and "0", "f", "F", "FALSE",
\* "false", "False" give false; every other string fails with the parse error
\* and the destination keeps its value.
C17_BoolLiterals ==
  BoolFromString =>
    CASE value.s \in TrueLiterals -> err = NoErr /\ Dest = VBool(TRUE)
      [] value.s \in FalseLiterals -> err = NoErr /\ Dest = VBool(FALSE)
      [] OTHER -> err.code = ParseErrorOf("bool") /\ Dest = Dest0

\* "T" turns a false destination true
C17_Witness ==
  /\ BoolFromString
  /\ value.s = <<"T">>
  /\ Dest0 = VBool(FALSE) /\ Dest = VBool(TRUE)
  /\ err = NoErr

\* --------------------------------------------------------------------- C18
\* The whole number a numeric value stands for once its fraction is dropped:
\* the one integer k of the value's sign with |k| <= |value| < |k| + 1
\* (floats are held in tenths)
WholeOf(v) ==
  IF v.kind = "float"
  THEN CHOOSE k \in -400..400 :
         /\ k * v.n >= 0
         /\ 10 * Abs(k) <= Abs(v.n)
         /\ Abs(v.n) < 10 * Abs(k) + 10
  ELSE v.n
\* The one number of a w-bit destination's range that differs from x by a
\* multiple of 2^w (a 64-bit destination holds every number of the model; an
\* unsigned one holds 2^64 + x as x when x is negative)
ReducedTo(kind, w, x) ==
  IF w = 64 THEN x
  ELSE CHOOSE r \in (IF kind = "int" THEN -128..127 ELSE 0..255) : (r - x) % 256 = 0
NumericIntoInteger ==
  /\ pc = "done" /\ ValidHandle
  /\ value.kind \in {"int", "uint", "float"}
  /\ Dest0.kind \in {"int", "uint"}

\* C18: a numeric value into an integer destination of width w: SetField
\* returns no error and stores the value with its fraction dropped (toward
\* zero), reduced modulo 2^w into the destination's range.  A negative float
\* into an unsigned destination has no defined conversion in Go: the build
\* decides between the wrapped value and 0, and the call still succeeds.
C18_NumericIntoInteger ==
  NumericIntoInteger =>
    /\ err = NoErr
    /\ TypeOf(Dest) = TypeOf(Dest0)
    /\ IF value.kind = "float" /\ WholeOf(value) < 0 /\ Dest0.kind = "uint"
       THEN Dest.n \in {ReducedTo("uint", Dest0.w, WholeOf(value)), 0}
       ELSE Dest.n = ReducedTo(Dest0.kind, Dest0.w, WholeOf(value))

\* int64 300 into an int8 gives 44
C18_Witness ==
  /\ NumericIntoInteger
  /\ value = I64(300)
  /\ Dest0 = VInt(8, 7) /\ Dest = VInt(8, 44)
  /\ err = NoErr

\* --------------------------------------------------------------------- C19
\* The places of the commas of s, and the place of the k-th one (0 before
\* the first, one past the end after the last)
Commas(s) == { i \in 1..Len(s) : s[i] = "," }
CommaAt(s, k) ==
  IF k = 0 THEN 0
  ELSE IF k > Cardinality(Commas(s)) THEN Len(s) + 1
  ELSE CHOOSE p \in Commas(s) : Cardinality({ q \in Commas(s) : q <= p }) = k
\* The i-th comma-separated part of s (from 1)
PartOf(s, i) == SubSeq(s, CommaAt(s, i - 1) + 1, CommaAt(s, i) - 1)
\* p without the whitespace around it
Inked(p) == { i \in 1..Len(p) : p[i] \notin {" ", "\t", "\n", "\r"} }
Trimmed(p) ==
  IF Inked(p) = {} THEN <<>>
  ELSE SubSeq(p, CHOOSE a \in Inked(p) : \A b \in Inked(p) : a <= b,
                 CHOOSE a \in Inked(p) : \A b \in Inked(p) : a >= b)
\* A fresh element of type e, and the coercion of x into it
FreshCell == [base |-> 1, path |-> <<>>]
IntoFresh(e, x) == setValue(<<Zero(e)>>, FreshCell, x)
\* The element a coercion that succeeded left, pointers followed
ElementOf(r) == Deep(r.heap, Read(r.heap, FreshCell))
\* The index as the error message prints it
IndexText(i) ==
  CASE i = 0 -> <<"0">> [] i = 1 -> <<"1">> [] i = 2 -> <<"2">>
    [] i = 3 -> <<"3">> [] i = 4 -> <<"4">>
ElementError(e) == e.code = "ctag: error converting slice element %d: %w"

StringIntoSlice ==
  pc = "done" /\ ValidHandle /\ Dest0.kind = "slice" /\ value.kind = "string"
\* The parts of the string handed to SetField (from 1) that cannot be coerced
\* into the destination's element type
FailingParts ==
  { i \in 1..(Cardinality(Commas(value.s)) + 1) :
      IsErr(IntoFresh(Dest0.elem, VString(Trimmed(PartOf(value.s, i)))).err) }

\* C19: a string into a slice destination with element type E: the empty
\* string gives an empty slice; otherwise, when every part can be coerced,
\* the destination becomes a slice of (number of commas) + 1 elements, the
\* i-th the coercion into E of the i-th comma-separated part without the
\* whitespace around it; when some part cannot, SetField fails with the
\* element error carrying the index of the first such part and that part's
\* own error.
C19_StringIntoSlice ==
  StringIntoSlice =>
    IF value.s = <<>>
    THEN err = NoErr /\ Dest = VSlice(Dest0.elem, FALSE, <<>>)
    ELSE IF FailingParts = {}
    THEN /\ err = NoErr
         /\ Dest.kind = "slice" /\ Dest.elem = Dest0.elem /\ ~Dest.isnil
         /\ Len(Dest.items) = Cardinality(Commas(value.s)) + 1
         /\ \A i \in 1..Len(Dest.items) :
              Deep(heap, Dest.items[i])
                = ElementOf(IntoFresh(Dest0.elem, VString(Trimmed(PartOf(value.s, i)))))
    ELSE \E k \in FailingParts :
           /\ \A j \in FailingParts : k <= j
           /\ ElementError(err)
           /\ err.detail = IndexText(k - 1)
           /\ err.cause = IntoFresh(Dest0.elem, VString(Trimmed(PartOf(value.s, k)))).err

\* "1, 2 " into a nil []int64 gives [1 2]
C19_Witness ==
  /\ StringIntoSlice
  /\ value.s = <<"1", ",", " ", "2", " ">>
  /\ Dest0 = VSlice(TInt(64), TRUE, <<>>)
  /\ Dest = VSlice(TInt(64), FALSE, <<I64(1), I64(2)>>)
  /\ err = NoErr

\* --------------------------------------------------------------------- C20
\* A slice into a slice destination of another type
SliceIntoSlice ==
  /\ pc = "done" /\ ValidHandle
  /\ Dest0.kind = "slice" /\ value.kind = "slice"
  /\ TypeOf(value) # TypeOf(Dest0)
\* The source elements (from 1) that cannot be coerced into the destination's
\* element type
FailingElems ==
  { i \in 1..Len(value.items) :
      IsErr(IntoFresh(Dest0.elem, Interface(value.items[i])).err) }

\* C20: a slice that is not assignable to the slice destination, of element
\* type E: when every source element can be coerced, the destination becomes
\* a new slice of the source's length, the i-th element the coercion into E
\* of the i-th source element, a nil element giving E's zero value; when some
\* element cannot, SetField fails with the element error carrying the index
\* of the first such element and that element's own error.
C20_SliceIntoSlice ==
  SliceIntoSlice =>
    IF FailingElems = {}
    THEN /\ err = NoErr
         /\ Dest.kind = "slice" /\ Dest.elem = Dest0.elem /\ ~Dest.isnil
         /\ Len(Dest.items) = Len(value.items)
         /\ \A i \in 1..Len(Dest.items) :
              /\ Deep(heap, Dest.items[i])
                   = ElementOf(IntoFresh(Dest0.elem, Interface(value.items[i])))
              /\ value.items[i] = VIface(Nil) => Dest.items[i] = Zero(Dest0.elem)
    ELSE \E k \in FailingElems :
           /\ \A j \in FailingElems : k <= j
           /\ ElementError(err)
           /\ err.detail = IndexText(k - 1)
           /\ err.cause = IntoFresh(Dest0.elem, Interface(value.items[k])).err

\* []interface{}{5, "12", nil} into a nil []int64 gives [5 12 0]
C20_Witness ==
  /\ SliceIntoSlice
  /\ value = VSlice(TIface, FALSE, <<VIface(I64(5)), VIface(VString(S_12)), VIface(Nil)>>)
  /\ Dest0 = VSlice(TInt(64), TRUE, <<>>)
  /\ Dest = VSlice(TInt(64), FALSE, <<I64(5), I64(12), I64(0)>>)
  /\ err = NoErr

\* --------------------------------------------------------------------- C21
\* A map into a record destination
MapIntoRecord ==
  pc = "done" /\ ValidHandle /\ Dest0.kind = "struct" /\ value.kind = "map"
HasKey(k) == \E j \in 1..Len(value.keys) : value.keys[j] = k
EntryAt(k) == Interface(value.vals[CHOOSE j \in 1..Len(value.keys) : value.keys[j] = k])
\* The json name of a field: what its json annotation holds before the first
\* comma, the declared name when that is empty
JsonName(f) ==
  IF f.tag.json = <<>> \/ PartOf(f.tag.json, 1) = <<>> THEN f.name
  ELSE PartOf(f.tag.json, 1)
Matched(f) == HasKey(JsonName(f)) \/ HasKey(f.name)
\* The key a matched field is read from: the json name first
KeyFor(f) == IF HasKey(JsonName(f)) THEN JsonName(f) ELSE f.name
\* The coercion of field i's entry into the field as it was before the call
IntoField(i) ==
  setValue(<<Dest0.fields[i].val>>, FreshCell, EntryAt(KeyFor(Dest0.fields[i])))
FieldError(e) == e.code = "ctag: error setting field %s: %w"
\* The fields among S take their entries, or the first whose entry cannot be
\* coerced is reported
FieldsTake(S) ==
  LET failing == { i \in S : IsErr(IntoField(i).err) } IN
  IF failing = {}
  THEN /\ err = NoErr
       /\ \A i \in S : Deep(heap, Dest.fields[i].val) = ElementOf(IntoField(i))
  ELSE \E k \in failing :
         /\ \A j \in failing : k <= j
         /\ FieldError(err)
         /\ err.detail = Dest0.fields[k].name
         /\ err.cause = IntoField(k).err
\* The exported fields with a key in the map, and those of them that are not
\* excluded by the json annotation "-"
ExportedMatched ==
  { i \in 1..Len(Dest0.fields) : Dest0.fields[i].exported /\ Matched(Dest0.fields[i]) }
FilledFields == { i \in ExportedMatched : Dest0.fields[i].tag.json # <<"-">> }

\* C21 as stated: every exported field of the destination takes the entry
\* under its json name, else under its declared name, coerced into the
\* field's type; a failure is reported with the field's name.
C21_AsClaimed == MapIntoRecord => FieldsTake(ExportedMatched)

\* C21: every exported field of the destination whose json annotation is not
\* "-" takes the map's entry under its json name when the map has that key,
\* otherwise the entry under its declared name when the map has that key,
\* coerced into the field's type as SetField coerces; the first field whose
\* entry cannot be coerced is reported with its declared name and its error.
C21_FieldsFromMap == MapIntoRecord => FieldsTake(FilledFields)

\* {"n": "12", "A": 30.0} into struct{ N string `json:"n"`; A int }: "12", 30
C21_Witness ==
  /\ MapIntoRecord
  /\ value = VMap(TIface, FALSE, <<<<"n">>, <<"A">>>>,
                  <<VIface(VString(S_12)), VIface(VFloat(64, 300))>>)
  /\ Dest0 = Rec1
  /\ Len(Dest.fields) = 2
  /\ Dest.fields[1].val = VString(S_12)
  /\ Dest.fields[2].val = I64(30)
  /\ err = NoErr

\* --------------------------------------------------------------------- C22
\* The keys of the map that are the json name or the declared name of a field
MatchingKeys ==
  { k \in { value.keys[j] : j \in 1..Len(value.keys) } :
      \E i \in 1..Len(Dest0.fields) :
        k = JsonName(Dest0.fields[i]) \/ k = Dest0.fields[i].name }

\* C22: after a map was coerced into a record destination with success,
\* every field of the destination without a matching key holds the zero
\* value of its type, whatever it held before; and a map none of whose keys
\* matches a field gives no error and changes nothing.
C22_UnmatchedZero ==
  MapIntoRecord =>
    /\ err = NoErr =>
         \A i \in 1..Len(Dest0.fields) :
           ~Matched(Dest0.fields[i]) =>
             Dest.fields[i].val = Zero(TypeOf(Dest0.fields[i].val))
    /\ MatchingKeys = {} => (err = NoErr /\ heap = heap0)

\* --------------------------------------------------------------------- C23
\* The storage the caller had before the call, the destination apart
Bystanders == { b \in 1..Len(heap0) : b # data.loc.base }
\* The value is stored as it is: nil, or assignable to the destination's type
StoredAsIs == value = Nil \/ AssignableTo(TypeOf(value), TypeOf(Dest0))

\* C23 as stated: SetField changes no storage of the caller other than the
\* destination location; what another pointer to the destination's pointee
\* sees is what it saw before.
C23_AsClaimed ==
  (pc = "done" /\ ValidHandle) => \A b \in Bystanders : heap[b] = heap0[b]

\* C23: SetField frees nothing; a value stored as it is (nil, or assignable
\* to the destination's type) changes the destination location only; any
\* other value given to a destination that is a non-nil pointer leaves the
\* pointer as it is and is coerced into the existing pointee, where every
\* other pointer to that pointee sees it.
C23_WritesThroughPointer ==
  (pc = "done" /\ ValidHandle) =>
    /\ Len(heap) >= Len(heap0)
    /\ StoredAsIs => \A b \in Bystanders : heap[b] = heap0[b]
    /\ (Dest0.kind = "ptr" /\ Dest0.loc # NilLoc /\ ~StoredAsIs) =>
         /\ Dest = Dest0
         /\ err = NoErr =>
              Deep(heap, Read(heap, Dest0.loc))
                = ElementOf(setValue(<<Read(heap0, Dest0.loc)>>, FreshCell, value))

\* p points to x, which holds 7: after SetField(&p, "12") p still points to
\* x and x holds 12
C23_Witness ==
  /\ pc = "done" /\ ValidHandle
  /\ Dest0.kind = "ptr" /\ Dest0.loc # NilLoc
  /\ Read(heap0, Dest0.loc) = I64(7)
  /\ value = VString(S_12)
  /\ Dest = Dest0
  /\ Read(heap, Dest0.loc) = I64(12)
  /\ err = NoErr

\* --------------------------------------------------------------------- C24
\* The top-level field i is an embedded record that meets a skip rule: its
\* annotation is "-", or it carries omitempty and the record is zero
SkippedEmbedded(i) ==
  LET d == StripPtr(DataType).decls[i] IN
  /\ d.anon
  /\ ValAt(heap0, data, <<i>>).kind = "struct"
  /\ \/ d.tag[key] = S_dash
     \/ HasOption(d.tag[key], S_omitempty) /\ IsZero(ValAt(heap0, data, <<i>>))

\* C24: with no processor, an embedded record field that meets a skip rule
\* gives no entry of its own and is still walked: every field of the
\* embedded record that no rule skips has its entry, after the entries of
\* the enclosing record's other fields.
C24_SkippedEmbeddedWalked ==
  (pc = "done" /\ proc = NoProc /\ err = NoErr /\ IndirectIsStruct(heap0, data)) =>
    \A i \in 1..Len(StripPtr(DataType).decls) :
      SkippedEmbedded(i) =>
        /\ EntriesOf(<<i>>) = {}
        /\ \A j \in 1..Len(StripPtr(DeclAt(DataType, <<i>>).type).decls) :
             PlainField(DeclAt(DataType, <<i, j>>), key) =>
               /\ EntriesOf(<<i, j>>) # {}
               /\ \A m \in EntriesOf(<<i, j>>) : \A n \in 1..Len(srcs) :
                    (srcs[n][1] # i /\ ~DeclAt(DataType, <<srcs[n][1]>>).anon) => n < m

\* --------------------------------------------------------------------- C25
\* The field at declaration path q is one Process may be invoked for:
\* annotated for the key, not "-", and not an embedded field
ProcessedField(q) ==
  LET d == DeclAt(DataType, q) IN
  ~d.anon /\ d.tag[key] # S_empty /\ d.tag[key] # S_dash

\* C25: when an extraction with a processor succeeds, the invocations of
\* Process are, in order, one for each entry of the sequence returned, made
\* for the field the entry comes from and with the name the field is
\* annotated with; no field has two, none is made for a field that is
\* embedded, not annotated or annotated "-", and the invocations for the
\* fields of an embedded record come after those for every other field of
\* the enclosing record, nested ones included.
C25_OncePerEntry ==
  (pc = "done" /\ proc # NoProc /\ err = NoErr /\ IndirectIsStruct(heap0, data)) =>
    /\ Len(log) = Len(tags)
    /\ Len(srcs) = Len(tags)
    /\ \A i \in 1..Len(log) :
         /\ log[i].src = srcs[i]
         /\ log[i].err = NoErr
         /\ IsNameToken(log[i].name, DeclAt(DataType, log[i].src).tag[key])
         /\ ProcessedField(log[i].src)
    /\ \A i, j \in 1..Len(log) :
         i < j => (log[i].src # log[j].src /\ ComesBefore(DataType, log[i].src, log[j].src))

\* An embedded record declared first and a nested record declared second,
\* walked with a renaming processor: three invocations, the embedded
\* record's field last
C25_Witness ==
  /\ pc = "done" /\ proc.kind = "rename" /\ err = NoErr
  /\ Len(tags) = 3 /\ Len(log) = 3
  /\ log[1].src = <<2>> /\ log[2].src = <<2, 1>> /\ log[3].src = <<1, 1>>
  /\ DeclAt(DataType, <<1>>).anon

\* --------------------------------------------------------------------- C26
\* A string or a slice of another type into a slice destination
IntoSlice ==
  /\ pc = "done" /\ ValidHandle
  /\ Dest0.kind = "slice"
  /\ value.kind \in {"string", "slice"}
  /\ TypeOf(value) # TypeOf(Dest0)

\* C26: when the coercion of a string or of a slice into a slice destination
\* fails at an element, the destination holds the slice it held before the
\* call, and so does everything the caller had: the elements set before the
\* failure are in storage the call allocated.
C26_SliceUnchangedOnFailure ==
  (IntoSlice /\ ElementError(err)) =>
    /\ Dest = Dest0
    /\ Untouched

\* "1,x" into a []int64 holding [9]: element 1 fails after element 0 was
\* set, and the destination still holds [9]
C26_Witness ==
  /\ IntoSlice /\ ElementError(err)
  /\ value = VString(<<"1", ",", "x">>)
  /\ Dest0 = VSlice(TInt(64), FALSE, <<I64(9)>>)
  /\ Dest = Dest0
  /\ err.detail = <<"1">>

\* --------------------------------------------------------------------- C27
\* C27: GetTagsAndProcess with a processor that does nothing returns what
\* GetTags returns for the same key and data, passed by value or by
\* reference: the same entries in the same order and the same error; the
\* entry of a pointer field carries the value at the end of the field's
\* pointers or nil, never a pointer.
C27_NoopSameAsGetTags ==
  (pc = "done" /\ proc.kind = "noop") =>
    /\ tags = GetTags(key, data, heap0).tags
    /\ err = GetTags(key, data, heap0).err
    /\ \A i \in 1..Len(tags) : tags[i].Field.kind # "ptr"

\* --------------------------------------------------------------------- C28
\* The integer a base-10 literal of the model denotes
Denotes(s) ==
  CASE s = S_12 -> 12
    [] s = <<"3", "0", "0">> -> 300
    [] s = <<"-", "1">> -> -1
    [] s = <<"+", "7">> -> 7
    [] s = <<"0">> -> 0
    [] s = <<"1">> -> 1
\* n is in the range of a w-bit destination of the kind
InRange(kind, w, n) ==
  IF kind = "int" THEN w = 64 \/ n \in -128..127
  ELSE n >= 0 /\ (w = 64 \/ n <= 255)
IntegerString ==
  /\ pc = "done" /\ ValidHandle
  /\ value.kind = "string" /\ value.s \in IntLiterals
  /\ Dest0.kind \in {"int", "uint"}

\* C28: a base-10 integer string into an integer destination of width w:
\* when the call succeeds the destination holds the integer the string
\* denotes, and a string denoting an integer outside the destination's range
\* fails with the parse error and stores nothing.
C28_ParsedExactly ==
  IntegerString =>
    /\ err = NoErr => Dest.n = Denotes(value.s)
    /\ ~InRange(Dest0.kind, Dest0.w, Denotes(value.s)) =>
         (err.code = ParseErrorOf(Dest0.kind) /\ Dest = Dest0)

====
